---- MODULE Spec2Model ----
(***************************************************************************)
(* A model of geotic's artifact engine: the value codec                    *)
(* (SerializationHelpers.js), the encoder (ArtifactSerializer), the        *)
(* decoder (ArtifactDeserializer), the validator (ArtifactValidator) and   *)
(* World.createArtifact / World.loadArtifact.                              *)
(*                                                                         *)
(* JavaScript values are tagged records.  A string value carries its       *)
(* UTF-16 code units, an object ("map") is the sequence of its own         *)
(* enumerable properties in insertion order, which is the order of         *)
(* for...in, Object.values and JSON.stringify.                             *)
(***************************************************************************)
EXTENDS Integers, Sequences, FiniteSets, TLC

(***************************************************************************)
(* Bounds of the model.                                                    *)
(***************************************************************************)
MaxEntities == 2
MaxComponents == 2
MaxGraphEntities == 3
MaxGraphComponents == 2
MaxDepthOption == 2
MaxRecords == 2
MaxEdges == 4
MaxTransforms == 2
MaxMigrations == 1
MaxLinked == 2
\* the longest text handed to calculateChecksum on its own
MaxText == 5

(***************************************************************************)
(* Program constants.                                                      *)
(***************************************************************************)
CURRENT_SCHEMA_VERSION == 1
LEGACY_SCHEMA_VERSION == 0

(***************************************************************************)
(* JavaScript values.                                                      *)
(***************************************************************************)
Undef == [t |-> "undef"]
Null == [t |-> "null"]
Bool(b) == [t |-> "bool", b |-> b]
Num(n) == [t |-> "num", n |-> n]
Str(cs) == [t |-> "str", s |-> cs]
Big(n) == [t |-> "big", i |-> n]
Date(d) == [t |-> "date", d |-> d]
Ent(o) == [t |-> "ent", o |-> o]
Arr(items) == [t |-> "arr", a |-> items]
Map(props) == [t |-> "map", m |-> props]
Comp(c, props) == [t |-> "comp", c |-> c, m |-> props]
P(k, v) == [k |-> k, v |-> v]

\* obj[key] of a plain object or a component; undefined when absent
Get(obj, key) ==
    IF obj.t \in {"map", "comp"} /\ \E i \in 1..Len(obj.m) : obj.m[i].k = key
    THEN obj.m[CHOOSE i \in 1..Len(obj.m) : obj.m[i].k = key].v
    ELSE Undef

\* obj[key] = v on a property list: an existing key keeps its position
SetProp(props, key, v) ==
    IF \E i \in 1..Len(props) : props[i].k = key
    THEN [i \in 1..Len(props) |-> IF props[i].k = key THEN P(key, v) ELSE props[i]]
    ELSE Append(props, P(key, v))

\* const { id, ...rest } = obj
Rest(props, key) == SelectSeq(props, LAMBDA p : p.k # key)

\* ToBoolean
Truthy(v) ==
    CASE v.t \in {"undef", "null"} -> FALSE
      [] v.t = "bool" -> v.b
      [] v.t = "num" -> v.n # 0
      [] v.t = "big" -> v.i # 0
      [] v.t = "str" -> v.s # << >>
      [] OTHER -> TRUE

\* typeof v === 'object'
IsObject(v) == v.t \in {"null", "arr", "map", "date", "ent", "comp"}

\* v && typeof v === 'object' && v.constructor === Object
IsPlainObject(v) == v.t = "map"

IsArray(v) == v.t = "arr"

(***************************************************************************)
(* Text: sequences of UTF-16 code units.                                   *)
(***************************************************************************)
KeyChars(k) ==
    CASE k = "id" -> <<105, 100>>
      [] k = "slot" -> <<115, 108, 111, 116>>
      [] k = "bag" -> <<98, 97, 103>>
      [] k = "tag" -> <<116, 97, 103>>
      [] k = "ghost" -> <<103, 104, 111, 115, 116>>
      [] k = "item" -> <<105, 116, 101, 109>>
      [] k = "k" -> <<107>>
      [] k = "entity" -> <<101, 110, 116, 105, 116, 121>>
      [] k = "$ref" -> <<36, 114, 101, 102>>
      [] k = "$bigint" -> <<36, 98, 105, 103, 105, 110, 116>>
      [] k = "$date" -> <<36, 100, 97, 116, 101>>
      [] k = "entities" -> <<101, 110, 116, 105, 116, 105, 101, 115>>
      [] k = "meta" -> <<109, 101, 116, 97>>
      [] k = "schemaVersion" -> <<115, 99, 104, 101, 109, 97, 86, 101, 114, 115, 105, 111, 110>>
      [] k = "checksum" -> <<99, 104, 101, 99, 107, 115, 117, 109>>
      [] OTHER -> <<63>>

KnownKeys ==
    {"id", "slot", "bag", "tag", "ghost", "item", "k", "entity", "$ref", "$bigint", "$date",
     "entities", "meta", "schemaVersion", "checksum"}

\* ToPropertyKey of a string value
PropertyKey(v) == CHOOSE k \in KnownKeys : KeyChars(k) = v.s

RECURSIVE NatChars(_)
NatChars(n) == IF n < 10 THEN <<48 + n>> ELSE NatChars(n \div 10) \o <<48 + (n % 10)>>

\* Number.prototype.toString / BigInt.prototype.toString of an integer
DecChars(n) == IF n < 0 THEN <<45>> \o NatChars(-n) ELSE NatChars(n)

RECURSIVE ParseNat(_)
ParseNat(cs) ==
    IF cs = << >> THEN 0
    ELSE 10 * ParseNat(SubSeq(cs, 1, Len(cs) - 1)) + (cs[Len(cs)] - 48)

\* BigInt(string) of a decimal literal with an optional leading '-'
ParseDec(cs) ==
    IF cs # << >> /\ cs[1] = 45 THEN 0 - ParseNat(Tail(cs)) ELSE ParseNat(cs)

Quote(cs) == <<34>> \o cs \o <<34>>

RECURSIVE Join(_)
Join(parts) ==
    IF parts = << >> THEN << >>
    ELSE IF Len(parts) = 1 THEN parts[1]
    ELSE parts[1] \o <<44>> \o Join(Tail(parts))

(***************************************************************************)
(* Value codec: SerializationHelpers.js                                    *)
(***************************************************************************)
SKIP_FIELDS == {"_cbits", "_cbit", "_qeligible", "world", "entity"}

bigintReplacer(key, value) ==
    IF key \in SKIP_FIELDS THEN Undef
    ELSE IF value.t = "big" THEN Map(<<P("$bigint", Str(DecChars(value.i)))>>)
    ELSE IF value.t = "date" THEN Map(<<P("$date", Str(value.d))>>)
    ELSE value

bigintReviver(key, value) ==
    IF Truthy(value) /\ IsObject(value) /\ Truthy(Get(value, "$bigint"))
    THEN Big(ParseDec(Get(value, "$bigint").s))
    ELSE IF Truthy(value) /\ IsObject(value) /\ Truthy(Get(value, "$date"))
    THEN Date(Get(value, "$date").s)
    ELSE value

(***************************************************************************)
(* JSON.stringify(value, replacer) and JSON.parse(text, reviver).          *)
(* SerializeJSONProperty first replaces a value that has a toJSON method   *)
(* (a Date) by the result of toJSON, its ISO string, then calls the        *)
(* replacer, then serializes the result; a BigInt that reaches             *)
(* serialization raises a TypeError.  JsonTree is the JSON value the text  *)
(* denotes (what JSON.parse returns for it), JsonText the text itself.     *)
(***************************************************************************)
IndexKey(i) == ToString(i - 1)

PrepValue(replacer, key, v) ==
    LET w == IF v.t = "date" THEN Str(v.d) ELSE v
    IN  IF replacer = "bigintReplacer" THEN bigintReplacer(key, w) ELSE w

RECURSIVE JsonThrows(_, _, _)
JsonThrows(replacer, key, v) ==
    LET w == PrepValue(replacer, key, v)
    IN  CASE w.t = "big" -> TRUE
          [] w.t = "arr" -> \E i \in 1..Len(w.a) : JsonThrows(replacer, IndexKey(i), w.a[i])
          [] w.t = "map" -> \E i \in 1..Len(w.m) : JsonThrows(replacer, w.m[i].k, w.m[i].v)
          [] OTHER -> FALSE

RECURSIVE JsonTree(_, _, _)
JsonTree(replacer, key, v) ==
    LET w == PrepValue(replacer, key, v)
    IN  CASE w.t = "arr" ->
               Arr([i \in 1..Len(w.a) |->
                      LET e == JsonTree(replacer, IndexKey(i), w.a[i])
                      IN  IF e = Undef THEN Null ELSE e])
          [] w.t = "map" ->
               Map(SelectSeq([i \in 1..Len(w.m) |->
                                P(w.m[i].k, JsonTree(replacer, w.m[i].k, w.m[i].v))],
                             LAMBDA p : p.v # Undef))
          [] OTHER -> w

RECURSIVE JsonText(_)
JsonText(v) ==
    CASE v.t = "null" -> <<110, 117, 108, 108>>
      [] v.t = "bool" -> IF v.b THEN <<116, 114, 117, 101>> ELSE <<102, 97, 108, 115, 101>>
      [] v.t = "num" -> DecChars(v.n)
      [] v.t = "str" -> Quote(v.s)
      [] v.t = "arr" -> <<91>> \o Join([i \in 1..Len(v.a) |-> JsonText(v.a[i])]) \o <<93>>
      [] v.t = "map" ->
           <<123>> \o Join([i \in 1..Len(v.m) |->
                              Quote(KeyChars(v.m[i].k)) \o <<58>> \o JsonText(v.m[i].v)])
                   \o <<125>>
      [] OTHER -> << >>

\* JSON.stringify(v): the text
Stringify(v) == JsonText(JsonTree("none", "", v))

\* JSON.parse(text, bigintReviver) on the JSON value the text denotes:
\* children first, then the reviver on the holder's property
RECURSIVE Revive(_, _)
Revive(key, v) ==
    CASE v.t = "arr" ->
           bigintReviver(key, Arr([i \in 1..Len(v.a) |-> Revive(IndexKey(i), v.a[i])]))
      [] v.t = "map" ->
           bigintReviver(key, Map(SelectSeq([i \in 1..Len(v.m) |->
                                               P(v.m[i].k, Revive(v.m[i].k, v.m[i].v))],
                                            LAMBDA p : p.v # Undef)))
      [] OTHER -> bigintReviver(key, v)

(***************************************************************************)
(* calculateChecksum: hash = ((hash << 5) - hash) + char; hash & hash.     *)
(* A 32-bit integer is kept as two 16-bit halves so that no intermediate   *)
(* value leaves the range of the checker's integers.                       *)
(***************************************************************************)
Half == 65536

Hi(h) == (h \div Half) % Half
Lo(h) == h % Half

\* ToInt32 of hi * 2^16 + lo, for any integers hi and 0 <= lo < 2^16
ToInt32(hi, lo) ==
    LET h == hi % Half
    IN  IF h >= 32768 THEN (h - Half) * Half + lo ELSE h * Half + lo

\* hash << 5
Shl5(h) ==
    LET lo == Lo(h) * 32
    IN  ToInt32(Hi(h) * 32 + lo \div Half, lo % Half)

\* (a - b + c) & itself, a and b 32-bit, 0 <= c < 2^16
SubAdd32(a, b, c) ==
    LET lo == Lo(a) - Lo(b) + c
    IN  ToInt32(Hi(a) - Hi(b) + lo \div Half, lo % Half)

\* a variant of the loop body that leaves out "- hash"
HashStepShiftOnly(hash, char) == SubAdd32(Shl5(hash), 0, char)

HashStep(hash, char) == SubAdd32(Shl5(hash), hash, char)

\* the for loop over the characters of the text, from a given hash on: the
\* loop over a text is the loop over its first half followed by the loop
\* over its second half
RECURSIVE HashFrom(_, _)
HashFrom(hash, cs) ==
    IF cs = << >> THEN hash
    ELSE IF Len(cs) = 1 THEN HashStep(hash, cs[1])
    ELSE LET half == HashFrom(hash, SubSeq(cs, 1, Len(cs) \div 2))
         IN  IF half \in Int THEN HashFrom(half, SubSeq(cs, Len(cs) \div 2 + 1, Len(cs)))
             ELSE half

HexDigit(d) == IF d < 10 THEN 48 + d ELSE 87 + d

RECURSIVE HexNat(_)
HexNat(n) == IF n < 16 THEN <<HexDigit(n)>> ELSE HexNat(n \div 16) \o <<HexDigit(n % 16)>>

Hex4(n) ==
    <<HexDigit(n \div 4096), HexDigit((n \div 256) % 16), HexDigit((n \div 16) % 16),
      HexDigit(n % 16)>>

HexHalves(hi, lo) == IF hi = 0 THEN HexNat(lo) ELSE HexNat(hi) \o Hex4(lo)

\* hash.toString(16) of a 32-bit integer: a '-' and the magnitude when negative
Hex32(h) ==
    IF h >= 0 THEN HexHalves(Hi(h), Lo(h))
    ELSE <<45>> \o HexHalves(Half - Hi(h) - (IF Lo(h) = 0 THEN 0 ELSE 1),
                             (Half - Lo(h)) % Half)

SimpleTag == <<115, 105, 109, 112, 108, 101, 58>>

calculateChecksum(data) == Str(SimpleTag \o Hex32(HashFrom(0, data)))

verifyChecksum(data, expectedChecksum) == calculateChecksum(data) = expectedChecksum

(***************************************************************************)
(* The live graph.  heap is the sequence of Entity objects ever            *)
(* constructed, an object's identity is its index; a world's _entities     *)
(* Map is the sequence of its (id, object) entries in insertion order.     *)
(***************************************************************************)
\* the component classes registered with the engine: a single-instance
\* class, a class that allows several instances (kept in an array) and a
\* class that allows several instances keyed by its property "k"
Registry ==
    [slot |-> [allowMultiple |-> FALSE, keyProperty |-> "", properties |-> <<P("item", Null)>>],
     bag |-> [allowMultiple |-> TRUE, keyProperty |-> "", properties |-> <<P("item", Null)>>],
     tag |-> [allowMultiple |-> TRUE, keyProperty |-> "k",
              properties |-> <<P("k", Str(<< >>)), P("item", Null)>>]]

Registered(type) == type \in DOMAIN Registry

\* util/string-util camelString, on names that are camel case already
camelString(name) == name

\* new Entity(world, id)
NewEntity(w, id, serializable) ==
    [world |-> w, id |-> id, serializable |-> serializable, qeligible |-> TRUE,
     candidacies |-> 0, comps |-> << >>]

\* Map.prototype.get on a world's _entities
MapHas(entries, id) == \E i \in 1..Len(entries) : entries[i].k = id
MapGet(entries, id) == entries[CHOOSE i \in 1..Len(entries) : entries[i].k = id].v

\* World.getEntity
getEntity(world, id) == IF MapHas(world, id) THEN Ent(MapGet(world, id)) ELSE Undef

\* own enumerable properties of a value used as Object.assign source
OwnProps(v) == IF v.t \in {"map", "comp"} THEN v.m ELSE << >>

RECURSIVE Assign(_, _)
Assign(target, source) ==
    IF source = << >> THEN target
    ELSE Assign(SetProp(target, Head(source).k, Head(source).v), Tail(source))

\* new ComponentClass(properties): Object.assign(this, Class.properties, properties)
NewComponent(type, properties) ==
    Comp(type, Assign(Registry[type].properties, OwnProps(properties)))

HasProp(props, key) == \E i \in 1..Len(props) : props[i].k = key

\* Entity.add: the entity's components after adding one instance of a class
EntityAdd(comps, type, properties) ==
    LET component == NewComponent(type, properties)
        class == Registry[type]
        accessor == camelString(type)
    IN  IF ~class.allowMultiple
        THEN IF HasProp(comps, accessor) THEN comps
             ELSE SetProp(comps, accessor, component)
        ELSE IF class.keyProperty = ""
        THEN LET all == IF HasProp(comps, accessor)
                        THEN Get(Map(comps), accessor).a ELSE << >>
             IN  SetProp(comps, accessor, Arr(Append(all, component)))
        ELSE LET key == Get(component, class.keyProperty)
                 all == IF HasProp(comps, accessor)
                        THEN Get(Map(comps), accessor).m ELSE << >>
             IN  IF ~Truthy(key) THEN comps
                 ELSE SetProp(comps, accessor, Map(SetProp(all, PropertyKey(key), component)))

(***************************************************************************)
(* Encoder: ArtifactSerializer                                             *)
(***************************************************************************)
DEFAULT_SERIALIZE_OPTIONS ==
    [entities |-> Null, excludeTransient |-> TRUE, excludeComponents |-> {},
     onlyComponents |-> Null, resolveReferences |-> FALSE, maxDepth |-> 3,
     includeMetadata |-> TRUE, checksum |-> FALSE,
     schemaVersion |-> CURRENT_SCHEMA_VERSION]

\* a Set of objects in insertion order: add one / several
SetAdd(set, x) == IF \E i \in 1..Len(set) : set[i] = x THEN set ELSE Append(set, x)

RECURSIVE SetAddAll(_, _)
SetAddAll(set, xs) ==
    IF xs = << >> THEN set ELSE SetAddAll(SetAdd(set, Head(xs)), Tail(xs))

RECURSIVE Flatten(_)
Flatten(seqs) == IF seqs = << >> THEN << >> ELSE Head(seqs) \o Flatten(Tail(seqs))

\* _encodeValue: the encoded value
RECURSIVE EncodeValue(_, _)
EncodeValue(heap, value) ==
    CASE value.t = "ent" -> Map(<<P("$ref", heap[value.o].id)>>)
      [] value.t = "arr" -> Arr([i \in 1..Len(value.a) |-> EncodeValue(heap, value.a[i])])
      [] value.t = "map" ->
           Map([i \in 1..Len(value.m) |-> P(value.m[i].k, EncodeValue(heap, value.m[i].v))])
      [] OTHER -> value

\* _encodeValue: the entities it adds to referencedEntities, in order
RECURSIVE EncodeRefs(_)
EncodeRefs(value) ==
    CASE value.t = "ent" -> <<value.o>>
      [] value.t = "arr" -> Flatten([i \in 1..Len(value.a) |-> EncodeRefs(value.a[i])])
      [] value.t = "map" -> Flatten([i \in 1..Len(value.m) |-> EncodeRefs(value.m[i].v)])
      [] OTHER -> << >>

\* the keys of component.constructor.properties
StaticKeys(component) ==
    [i \in 1..Len(Registry[component.c].properties) |-> Registry[component.c].properties[i].k]

\* _serializeComponent
SerializeComponent(heap, component) ==
    Map([i \in 1..Len(StaticKeys(component)) |->
           P(StaticKeys(component)[i],
             EncodeValue(heap, Get(component, StaticKeys(component)[i])))])

ComponentRefs(component) ==
    Flatten([i \in 1..Len(StaticKeys(component)) |->
               EncodeRefs(Get(component, StaticKeys(component)[i]))])

\* the component keys _serializeEntity retains
Retained(options, comps) ==
    SelectSeq(comps, LAMBDA p :
        /\ p.k \notin options.excludeComponents
        /\ ~(/\ Truthy(options.onlyComponents)
              /\ \A i \in 1..Len(options.onlyComponents.a) :
                    options.onlyComponents.a[i] # p.k))

\* one field group: a component, an array of components, a keyed collection
SerializeHolder(heap, holder) ==
    CASE holder.t = "comp" -> SerializeComponent(heap, holder)
      [] holder.t = "arr" ->
           Arr([i \in 1..Len(holder.a) |-> SerializeComponent(heap, holder.a[i])])
      [] OTHER ->
           Map([i \in 1..Len(holder.m) |->
                  P(holder.m[i].k, SerializeComponent(heap, holder.m[i].v))])

HolderRefs(holder) ==
    CASE holder.t = "comp" -> ComponentRefs(holder)
      [] holder.t = "arr" -> Flatten([i \in 1..Len(holder.a) |-> ComponentRefs(holder.a[i])])
      [] OTHER -> Flatten([i \in 1..Len(holder.m) |-> ComponentRefs(holder.m[i].v)])

\* _serializeEntity: the record, null for an entity that is not serializable
SerializeEntity(heap, options, o) ==
    LET kept == Retained(options, heap[o].comps)
    IN  IF ~heap[o].serializable THEN Null
        ELSE Map(<<P("id", heap[o].id)>> \o
                 [i \in 1..Len(kept) |-> P(kept[i].k, SerializeHolder(heap, kept[i].v))])

\* _serializeEntity: the entities it adds to referencedEntities, in order
EntityRefs(heap, options, o) ==
    LET kept == Retained(options, heap[o].comps)
    IN  IF ~heap[o].serializable THEN << >>
        ELSE Flatten([i \in 1..Len(kept) |-> HolderRefs(kept[i].v)])

\* _collectEntities (no filter function)
CollectEntities(heap, world, options) ==
    LET given == IF Truthy(options.entities)
                 THEN options.entities.a
                 ELSE [i \in 1..Len(world) |-> world[i].v]
    IN  IF options.excludeTransient
        THEN SelectSeq(given, LAMBDA o : heap[o].serializable # FALSE)
        ELSE given

\* a variant of the pass that takes every entity of the level, visited or not
RECURSIVE CollectLevelRevisiting(_, _, _, _)
CollectLevelRevisiting(heap, options, currentLevel, st) ==
    IF currentLevel = << >> THEN st
    ELSE LET o == Head(currentLevel)
             visited == st.visited \cup {heap[o].id}
             prevRefs == st.referenced
             referenced == SetAddAll(prevRefs, EntityRefs(heap, options, o))
             fresh == SelectSeq(referenced, LAMBDA r :
                          ~\E i \in 1..Len(prevRefs) : prevRefs[i] = r)
         IN  CollectLevelRevisiting(heap, options, Tail(currentLevel),
                                    [visited |-> visited,
                                     toInclude |-> Append(st.toInclude, o),
                                     referenced |-> referenced,
                                     nextLevel |-> st.nextLevel \o fresh])

\* one pass of the for loop of _collectReferencedEntities over currentLevel;
\* st = [visited, toInclude, referenced, nextLevel]
RECURSIVE CollectLevel(_, _, _, _)
CollectLevel(heap, options, currentLevel, st) ==
    IF currentLevel = << >> THEN st
    ELSE LET o == Head(currentLevel)
         IN  IF heap[o].id \in st.visited
             THEN CollectLevel(heap, options, Tail(currentLevel), st)
             ELSE LET visited == st.visited \cup {heap[o].id}
                      prevRefs == st.referenced
                      referenced == SetAddAll(prevRefs, EntityRefs(heap, options, o))
                      fresh == SelectSeq(referenced, LAMBDA r :
                                   /\ ~\E i \in 1..Len(prevRefs) : prevRefs[i] = r
                                   /\ heap[r].id \notin visited)
                 IN  CollectLevel(heap, options, Tail(currentLevel),
                                  [visited |-> visited,
                                   toInclude |-> Append(st.toInclude, o),
                                   referenced |-> referenced,
                                   nextLevel |-> st.nextLevel \o fresh])

\* the while loop of _collectReferencedEntities
RECURSIVE CollectLevels(_, _, _, _, _)
CollectLevels(heap, options, currentLevel, depth, st) ==
    IF currentLevel # << >> /\ depth < options.maxDepth
    THEN LET after == CollectLevel(heap, options, currentLevel,
                                   [st EXCEPT !.nextLevel = << >>])
         IN  CollectLevels(heap, options, after.nextLevel, depth + 1, after)
    ELSE st

\* _collectReferencedEntities
CollectReferencedEntities(heap, options, processedEntities, referencedEntities) ==
    CollectLevels(heap, options, referencedEntities, 0,
                  [visited |-> processedEntities, toInclude |-> << >>,
                   referenced |-> referencedEntities, nextLevel |-> << >>]).toInclude

\* _createMetadata; the clock reads 0
CreateMetadata(options) ==
    Map(<<P("version", Str(<<49, 46, 48, 46, 48>>)),
          P("schemaVersion", Num(options.schemaVersion)),
          P("timestamp", Num(0)),
          P("gameVersion", Null)>>)

\* serialize (no hooks): [error, artifact, included]; included are the
\* entities handed to _serializeEntity for the returned records, in order
serialize(heap, world, options) ==
    LET entities == CollectEntities(heap, world, options)
        processed == {heap[entities[i]].id : i \in 1..Len(entities)}
        referenced == SetAddAll(<< >>, Flatten([i \in 1..Len(entities) |->
                                                  EntityRefs(heap, options, entities[i])]))
        additional == IF options.resolveReferences
                      THEN CollectReferencedEntities(heap, options, processed, referenced)
                      ELSE << >>
        included == entities \o additional
        records == Arr([i \in 1..Len(included) |-> SerializeEntity(heap, options, included[i])])
        meta == CreateMetadata(options)
        throws == options.includeMetadata /\ options.checksum /\ JsonThrows("none", "", records)
    IN  IF throws THEN [error |-> "TypeError", artifact |-> Undef, included |-> included]
        ELSE [error |-> "",
              included |-> included,
              artifact |->
                Map(<<P("entities", records)>> \o
                    (IF ~options.includeMetadata THEN << >>
                     ELSE IF ~options.checksum THEN <<P("meta", meta)>>
                     ELSE <<P("meta", Map(Append(meta.m,
                               P("checksum", calculateChecksum(Stringify(records))))))>>))]

\* serialize from "Build artifact" on, for the entities whose records it has
\* gathered
BuildArtifact(heap, options, included) ==
    LET records == Arr([i \in 1..Len(included) |-> SerializeEntity(heap, options, included[i])])
    IN  IF options.includeMetadata /\ options.checksum /\ JsonThrows("none", "", records)
        THEN [error |-> "TypeError", artifact |-> Undef]
        ELSE [error |-> "",
              artifact |->
                Map(<<P("entities", records)>> \o
                    (IF ~options.includeMetadata THEN << >>
                     ELSE IF ~options.checksum THEN <<P("meta", CreateMetadata(options))>>
                     ELSE <<P("meta", Map(Append(CreateMetadata(options).m,
                               P("checksum", calculateChecksum(Stringify(records))))))>>))]

\* ArtifactSerializer.toJSON: the JSON value of the text it returns
toJSON(artifact) == JsonTree("bigintReplacer", "", artifact)

\* ArtifactDeserializer.fromJSON
fromJSON(json) == Revive("", json)

(***************************************************************************)
(* Validator: ArtifactValidator.  A check yields "" when it passes and     *)
(* the code of the ValidationError it raises otherwise ("TypeError" when   *)
(* JSON.stringify raises instead).                                         *)
(***************************************************************************)
DEFAULT_VALIDATOR_OPTIONS ==
    [validateChecksum |-> TRUE, validateComponents |-> TRUE, validateReferences |-> TRUE,
     strictVersion |-> FALSE]

\* obj?.key
OptGet(obj, key) == IF obj.t \in {"undef", "null"} THEN Undef ELSE Get(obj, key)

\* the elements of artifact.entities a for...of sees
Records(artifact) == Get(artifact, "entities").a

ValidateStructure(artifact) ==
    IF ~Truthy(artifact) \/ ~IsObject(artifact) THEN "INVALID_STRUCTURE"
    ELSE IF ~IsArray(Get(artifact, "entities")) THEN "INVALID_STRUCTURE"
    ELSE IF Truthy(Get(artifact, "meta")) /\ ~IsObject(Get(artifact, "meta"))
    THEN "INVALID_STRUCTURE"
    ELSE ""

\* a variant of _validateChecksum that accepts every recorded checksum
ValidateChecksumAccepting(artifact) == ""

ValidateChecksum(artifact) ==
    IF JsonThrows("none", "", Get(artifact, "entities")) THEN "TypeError"
    ELSE IF calculateChecksum(Stringify(Get(artifact, "entities")))
              # Get(Get(artifact, "meta"), "checksum")
    THEN "CHECKSUM_MISMATCH"
    ELSE ""

\* artifact.meta?.schemaVersion ?? 0
SchemaVersionOf(artifact) ==
    LET v == OptGet(Get(artifact, "meta"), "schemaVersion")
    IN  IF v.t \in {"undef", "null"} THEN Num(0) ELSE v

\* a variant of _validateSchemaVersion that tests for a newer version before
\* it tests strictVersion
ValidateSchemaVersionNewerFirst(options, artifact) ==
    LET v == OptGet(Get(artifact, "meta"), "schemaVersion")
        schemaVersion == IF v.t \in {"undef", "null"} THEN Num(0) ELSE v
    IN  IF schemaVersion.t = "num" /\ schemaVersion.n > CURRENT_SCHEMA_VERSION
        THEN "VERSION_TOO_NEW"
        ELSE IF options.strictVersion /\ schemaVersion # Num(CURRENT_SCHEMA_VERSION)
        THEN "VERSION_MISMATCH"
        ELSE ""

\* a variant of _validateSchemaVersion that ignores strictVersion
ValidateSchemaVersionLenient(options, artifact) ==
    LET v == OptGet(Get(artifact, "meta"), "schemaVersion")
        schemaVersion == IF v.t \in {"undef", "null"} THEN Num(0) ELSE v
    IN  IF schemaVersion.t = "num" /\ schemaVersion.n > CURRENT_SCHEMA_VERSION
        THEN "VERSION_TOO_NEW"
        ELSE ""

ValidateSchemaVersion(options, artifact) ==
    LET schemaVersion == SchemaVersionOf(artifact)
    IN  IF options.strictVersion /\ schemaVersion # Num(CURRENT_SCHEMA_VERSION)
        THEN "VERSION_MISMATCH"
        ELSE IF schemaVersion.t = "num" /\ schemaVersion.n > CURRENT_SCHEMA_VERSION
        THEN "VERSION_TOO_NEW"
        ELSE ""

\* a variant of _validateEntities that does not remember the ids it has seen
RECURSIVE ValidateEntitiesForgetful(_, _, _)
ValidateEntitiesForgetful(records, i, entityIds) ==
    IF i > Len(records) THEN ""
    ELSE LET entity == records[i]
         IN  IF ~Truthy(entity) \/ ~IsObject(entity) THEN "INVALID_ENTITY"
             ELSE IF ~Truthy(Get(entity, "id")) THEN "MISSING_ENTITY_ID"
             ELSE ValidateEntitiesForgetful(records, i + 1, entityIds)

\* the for loop of _validateEntities from record i on, entityIds seen so far
RECURSIVE ValidateEntitiesFrom(_, _, _)
ValidateEntitiesFrom(records, i, entityIds) ==
    IF i > Len(records) THEN ""
    ELSE LET entity == records[i]
         IN  IF ~Truthy(entity) \/ ~IsObject(entity) THEN "INVALID_ENTITY"
             ELSE IF ~Truthy(Get(entity, "id")) THEN "MISSING_ENTITY_ID"
             ELSE IF Get(entity, "id") \in entityIds THEN "DUPLICATE_ENTITY_ID"
             ELSE ValidateEntitiesFrom(records, i + 1, entityIds \cup {Get(entity, "id")})

ValidateEntities(artifact) == ValidateEntitiesFrom(Records(artifact), 1, {})

\* const { id, ...components } = entity
ComponentsOf(entity) == Rest(OwnProps(entity), "id")

ValidateComponents(artifact) ==
    IF \E i \in 1..Len(Records(artifact)) :
          \E j \in 1..Len(ComponentsOf(Records(artifact)[i])) :
              ~Registered(ComponentsOf(Records(artifact)[i])[j].k)
    THEN "UNKNOWN_COMPONENT"
    ELSE ""

\* a variant of _validateValueReferences that does not descend into arrays
\* and plain objects
InvalidValueReferencesShallow(value, validIds) ==
    /\ Truthy(value) /\ IsObject(value) /\ Truthy(Get(value, "$ref"))
    /\ Get(value, "$ref") \notin validIds

\* _validateValueReferences: TRUE when it raises
RECURSIVE InvalidValueReferences(_, _)
InvalidValueReferences(value, validIds) ==
    IF Truthy(value) /\ IsObject(value) /\ Truthy(Get(value, "$ref"))
    THEN Get(value, "$ref") \notin validIds
    ELSE IF IsArray(value)
    THEN \E i \in 1..Len(value.a) : InvalidValueReferences(value.a[i], validIds)
    ELSE IF IsPlainObject(value)
    THEN \E i \in 1..Len(value.m) : InvalidValueReferences(value.m[i].v, validIds)
    ELSE FALSE

\* _validateEntityReferences: TRUE when it raises
InvalidEntityReferences(entity, validIds) ==
    \E j \in 1..Len(ComponentsOf(entity)) :
        InvalidValueReferences(ComponentsOf(entity)[j].v, validIds)

\* a variant of _validateReferences that looks at the first record only
ValidateReferencesOfFirst(artifact) ==
    LET validIds == {Get(Records(artifact)[i], "id") : i \in 1..Len(Records(artifact))}
    IN  IF Records(artifact) # << >> /\ InvalidEntityReferences(Records(artifact)[1], validIds)
        THEN "INVALID_REFERENCE"
        ELSE ""

ValidateReferences(artifact) ==
    LET validIds == {Get(Records(artifact)[i], "id") : i \in 1..Len(Records(artifact))}
    IN  IF \E i \in 1..Len(Records(artifact)) :
              InvalidEntityReferences(Records(artifact)[i], validIds)
        THEN "INVALID_REFERENCE"
        ELSE ""

\* a variant of the order of the checks: the entities before the checksum
ValidatorChecksEntitiesFirst ==
    <<"structure", "entities", "checksum", "version", "components", "references">>

\* the checks of validate in order; a check that is switched off passes
ValidatorChecks == <<"structure", "checksum", "version", "entities", "components", "references">>

RunCheck(options, artifact, check) ==
    CASE check = "structure" -> ValidateStructure(artifact)
      [] check = "checksum" ->
           IF options.validateChecksum
              /\ Truthy(OptGet(Get(artifact, "meta"), "checksum"))
           THEN ValidateChecksum(artifact) ELSE ""
      [] check = "version" -> ValidateSchemaVersion(options, artifact)
      [] check = "entities" -> ValidateEntities(artifact)
      [] check = "components" ->
           IF options.validateComponents THEN ValidateComponents(artifact) ELSE ""
      [] check = "references" ->
           IF options.validateReferences THEN ValidateReferences(artifact) ELSE ""

\* validate from check number i on: the code raised, "" when it returns
RECURSIVE ValidateFrom(_, _, _)
ValidateFrom(options, artifact, i) ==
    IF i > Len(ValidatorChecks) THEN ""
    ELSE LET code == RunCheck(options, artifact, ValidatorChecks[i])
         IN  IF code # "" THEN code ELSE ValidateFrom(options, artifact, i + 1)

validate(options, artifact) == ValidateFrom(options, artifact, 1)

(***************************************************************************)
(* Decoder: ArtifactDeserializer.  The state a pass works on is            *)
(* [heap, world, nextId, entityMap, entities, error]: the objects, the     *)
(* target world's _entities and _id, the deserializer's entityMap, the     *)
(* array of created entities, and the message of the error raised ("" when *)
(* none).                                                                  *)
(***************************************************************************)
DEFAULT_DESERIALIZE_OPTIONS == [strictValidation |-> FALSE, danglingRefs |-> "null"]

\* World.createId: the counter followed by the random suffix, here "e"
createId(n) == Str(NatChars(n) \o <<101>>)

\* World.createEntity(id) on [heap, world, nextId]; an undefined id takes
\* the default createId()
createEntity(st, w, id, serializable) ==
    LET fresh == id = Undef
        theId == IF fresh THEN createId(st.nextId + 1) ELSE id
        o == Len(st.heap) + 1
    IN  [st EXCEPT !.heap = Append(st.heap, NewEntity(w, theId, serializable)),
                   !.world = SetProp(st.world, theId, o),
                   !.nextId = IF fresh THEN st.nextId + 1 ELSE st.nextId]

\* artifact.entities || []
EntitiesData(artifact) ==
    IF Truthy(Get(artifact, "entities")) THEN Get(artifact, "entities").a ELSE << >>

\* Pass 1, _createEntities, from record i on
RECURSIVE CreateEntitiesFrom(_, _, _, _)
CreateEntitiesFrom(st, w, entitiesData, i) ==
    IF i > Len(entitiesData) THEN st
    ELSE IF entitiesData[i].t \in {"null", "undef"}
    THEN [st EXCEPT !.error = "TypeError"]
    ELSE LET id == Get(entitiesData[i], "id")
             made == createEntity(st, w, id, TRUE)
             o == Len(made.heap)
         IN  CreateEntitiesFrom(
                 [made EXCEPT !.entityMap = SetProp(st.entityMap, id, o),
                              !.entities = Append(st.entities, o)],
                 w, entitiesData, i + 1)

\* the instances _addComponent adds for one field group
ComponentValues(type, componentData) ==
    IF Registry[type].allowMultiple
    THEN IF IsArray(componentData) THEN componentData.a
         ELSE [i \in 1..Len(OwnProps(componentData)) |-> OwnProps(componentData)[i].v]
    ELSE <<componentData>>

RECURSIVE AddAll(_, _, _)
AddAll(comps, type, values) ==
    IF values = << >> THEN comps
    ELSE AddAll(EntityAdd(comps, type, Head(values)), type, Tail(values))

\* the for...in loop of _addComponents over one record's field groups, from
\* group j on: the entity's components, the error raised and the field
\* group name its message carries
RECURSIVE AddComponentsFrom(_, _, _, _)
AddComponentsFrom(options, comps, groups, j) ==
    IF j > Len(groups) THEN [comps |-> comps, error |-> "", named |-> Undef]
    ELSE LET type == camelString(groups[j].k)
         IN  IF ~Registered(type)
             THEN IF options.strictValidation
                  THEN [comps |-> comps, error |-> "Unknown component type",
                        named |-> Str(KeyChars(groups[j].k))]
                  ELSE AddComponentsFrom(options, comps, groups, j + 1)
             ELSE AddComponentsFrom(options,
                                    AddAll(comps, type, ComponentValues(type, groups[j].v)),
                                    groups, j + 1)

\* Pass 2, _addComponents, from record idx on
RECURSIVE AddComponentsPass(_, _, _, _)
AddComponentsPass(st, options, entitiesData, idx) ==
    IF idx > Len(entitiesData) THEN st
    ELSE LET o == st.entities[idx]
             r == AddComponentsFrom(options, st.heap[o].comps,
                                    ComponentsOf(entitiesData[idx]), 1)
         IN  IF r.error # ""
             THEN [st EXCEPT !.heap[o].qeligible = FALSE,
                             !.heap[o].comps = r.comps,
                             !.error = r.error,
                             !.missing = r.named]
             ELSE AddComponentsPass(
                      [st EXCEPT !.heap[o].qeligible = TRUE,
                                 !.heap[o].comps = r.comps,
                                 !.heap[o].candidacies = @ + 1],
                      options, entitiesData, idx + 1)

\* entity._candidacy(): the world recomputes the entity's query membership,
\* unless the entity's eligibility is suspended
Candidacy(entity) ==
    IF entity.qeligible THEN [entity EXCEPT !.candidacies = @ + 1] ELSE entity

\* a variant of the suspension that leaves the entity eligible
SuspendNot(entity) == entity

\* entity._qeligible = false
Suspend(entity) == [entity EXCEPT !.qeligible = FALSE]

\* entity._qeligible = true; entity._candidacy()
Resume(entity) == Candidacy([entity EXCEPT !.qeligible = TRUE])

\* entity.add(ComponentClass, data) for each of the values: the component is
\* attached and the entity asks for its candidacy
RECURSIVE AttachAll(_, _, _)
AttachAll(entity, type, values) ==
    IF values = << >> THEN entity
    ELSE AttachAll(Candidacy([entity EXCEPT !.comps = EntityAdd(@, type, Head(values))]),
                   type, Tail(values))

\* a variant of _addComponent that raises on an unknown type whatever the
\* options say
addComponentAlwaysStrict(options, entity, componentName, componentData) ==
    LET type == camelString(componentName)
    IN  IF ~Registered(type)
        THEN [entity |-> entity, error |-> "Unknown component type",
              named |-> Str(KeyChars(componentName)), skipped |-> FALSE]
        ELSE [entity |-> AttachAll(entity, type, ComponentValues(type, componentData)),
              error |-> "", named |-> Undef, skipped |-> FALSE]

\* _addComponent: the entity afterwards, the error raised with the field
\* group name its message carries, whether the field group was skipped with
\* a warning
addComponent(options, entity, componentName, componentData) ==
    LET type == camelString(componentName)
    IN  IF ~Registered(type)
        THEN IF options.strictValidation
             THEN [entity |-> entity, error |-> "Unknown component type",
                   named |-> Str(KeyChars(componentName)), skipped |-> FALSE]
             ELSE [entity |-> entity, error |-> "", named |-> Undef, skipped |-> TRUE]
        ELSE [entity |-> AttachAll(entity, type, ComponentValues(type, componentData)),
              error |-> "", named |-> Undef, skipped |-> FALSE]

\* is value a reference marker for _resolveValue
IsRefMarker(value) == Truthy(value) /\ IsObject(value) /\ Truthy(Get(value, "$ref"))

\* the ids _resolveValue hands to _handleDanglingReference, in order
RECURSIVE DanglingIds(_, _)
DanglingIds(entityMap, value) ==
    IF IsRefMarker(value)
    THEN IF MapHas(entityMap, Get(value, "$ref")) THEN << >> ELSE <<Get(value, "$ref")>>
    ELSE IF IsArray(value)
    THEN Flatten([i \in 1..Len(value.a) |-> DanglingIds(entityMap, value.a[i])])
    ELSE IF IsPlainObject(value)
    THEN Flatten([i \in 1..Len(value.m) |-> DanglingIds(entityMap, value.m[i].v)])
    ELSE << >>

\* a variant of _handleDanglingReference that returns null in every mode
HandleDanglingReferenceLenient(mode, entityId) ==
    [throws |-> FALSE, names |-> Undef, value |-> Null]

\* _handleDanglingReference: 'throw' raises an error naming entityId, 'warn'
\* (after logging) and every other mode return null
HandleDanglingReference(mode, entityId) ==
    IF mode = "throw" THEN [throws |-> TRUE, names |-> entityId, value |-> Undef]
    ELSE [throws |-> FALSE, names |-> Undef, value |-> Null]

\* a variant of _resolveValue that does not descend into arrays and objects
ResolveValueShallow(entityMap, mode, value) ==
    IF Truthy(value) /\ IsObject(value) /\ Truthy(Get(value, "$ref"))
    THEN IF MapHas(entityMap, Get(value, "$ref"))
         THEN Ent(MapGet(entityMap, Get(value, "$ref")))
         ELSE Null
    ELSE value

\* _resolveValue when no dangling reference raises
RECURSIVE ResolveValue(_, _, _)
ResolveValue(entityMap, mode, value) ==
    IF IsRefMarker(value)
    THEN IF MapHas(entityMap, Get(value, "$ref"))
         THEN Ent(MapGet(entityMap, Get(value, "$ref")))
         ELSE HandleDanglingReference(mode, Get(value, "$ref")).value
    ELSE IF IsArray(value)
    THEN Arr([i \in 1..Len(value.a) |-> ResolveValue(entityMap, mode, value.a[i])])
    ELSE IF IsPlainObject(value)
    THEN Map([i \in 1..Len(value.m) |->
                P(value.m[i].k, ResolveValue(entityMap, mode, value.m[i].v))])
    ELSE value

\* _resolveComponentReferences from property i on: the component's
\* properties and the id of the dangling reference that raised
RECURSIVE ResolveProps(_, _, _, _)
ResolveProps(entityMap, mode, props, i) ==
    IF i > Len(props) THEN [props |-> props, missing |-> << >>]
    ELSE LET dangling == DanglingIds(entityMap, props[i].v)
         IN  IF dangling # << >> /\ HandleDanglingReference(mode, Head(dangling)).throws
             THEN [props |-> props,
                   missing |-> <<HandleDanglingReference(mode, Head(dangling)).names>>]
             ELSE ResolveProps(entityMap, mode,
                               [props EXCEPT ![i].v = ResolveValue(entityMap, mode, @)],
                               i + 1)

\* the components a holder holds: the members of an array, the values of a
\* keyed collection, a single component itself
HolderComponents(holder) ==
    CASE holder.t = "arr" -> holder.a
      [] holder.t = "map" -> [i \in 1..Len(holder.m) |-> holder.m[i].v]
      [] OTHER -> <<holder>>

\* component._ckey: the registry writes the class key on the prototype of
\* every registered class; a plain object has none
Ckey(component) ==
    IF component.t = "comp" THEN Str(KeyChars(camelString(component.c))) ELSE Undef

\* the components _resolveEntityReferences visits in one holder: an array's
\* members, a plain object's values unless it has a _ckey, and a single
\* component when it has a _ckey
VisitedComponents(holder) ==
    IF IsArray(holder) THEN holder.a
    ELSE IF IsPlainObject(holder)
    THEN IF Truthy(Ckey(holder)) THEN <<holder>>
         ELSE [i \in 1..Len(holder.m) |-> holder.m[i].v]
    ELSE IF Truthy(holder) /\ Truthy(Ckey(holder)) THEN <<holder>>
    ELSE << >>

\* put the visited components back into a holder of the same shape
WithComponents(holder, components) ==
    CASE holder.t = "arr" -> Arr(components)
      [] holder.t = "map" -> Map([i \in 1..Len(holder.m) |-> P(holder.m[i].k, components[i])])
      [] OTHER -> IF components = << >> THEN holder ELSE components[1]

\* the components of one holder from number i on
RECURSIVE ResolveComponents(_, _, _, _)
ResolveComponents(entityMap, mode, components, i) ==
    IF i > Len(components) THEN [components |-> components, missing |-> << >>]
    ELSE LET r == ResolveProps(entityMap, mode, components[i].m, 1)
             next == [components EXCEPT ![i].m = r.props]
         IN  IF r.missing # << >> THEN [components |-> next, missing |-> r.missing]
             ELSE ResolveComponents(entityMap, mode, next, i + 1)

\* the for...in loop over entity.components from holder j on
RECURSIVE ResolveHolders(_, _, _, _)
ResolveHolders(entityMap, mode, comps, j) ==
    IF j > Len(comps) THEN [comps |-> comps, missing |-> << >>]
    ELSE LET r == ResolveComponents(entityMap, mode, VisitedComponents(comps[j].v), 1)
             next == [comps EXCEPT ![j].v = WithComponents(@, r.components)]
         IN  IF r.missing # << >> THEN [comps |-> next, missing |-> r.missing]
             ELSE ResolveHolders(entityMap, mode, next, j + 1)

\* Pass 3, _resolveEntityReferences, from entity number i on
RECURSIVE ResolveEntityReferences(_, _, _)
ResolveEntityReferences(st, options, i) ==
    IF i > Len(st.entities) THEN st
    ELSE LET o == st.entities[i]
             r == ResolveHolders(st.entityMap, options.danglingRefs, st.heap[o].comps, 1)
             next == [st EXCEPT !.heap[o].comps = r.comps]
         IN  IF r.missing # << >>
             THEN [next EXCEPT !.error = "Dangling entity reference", !.missing = r.missing[1]]
             ELSE ResolveEntityReferences(next, options, i + 1)

(***************************************************************************)
(* MigrationRegistry (SerializationHelpers.js).  _migrations is a Map of   *)
(* Maps, both in insertion order: the entry of a source version holds the  *)
(* entries of its target versions, each with its transform.                *)
(***************************************************************************)
\* a migration function; kind and mark say what it does to a document
Fn(kind, mark) == [t |-> "fn", kind |-> kind, mark |-> mark]

\* typeof migrationFn === 'function'
Callable(fn) == fn.t = "fn"

\* { from, to }
Step(from, to) == [from |-> from, to |-> to]

\* a variant of register that stores whatever it is given
registerUnchecked(reg, fromVersion, toVersion, migrationFn) ==
    LET outer == IF MapHas(reg, fromVersion) THEN reg
                 ELSE SetProp(reg, fromVersion, << >>)
        inner == SetProp(MapGet(outer, fromVersion), toVersion, migrationFn)
    IN  [error |-> "", migrations |-> SetProp(outer, fromVersion, inner)]

\* register: a transform that is no function throws before anything is set
register(reg, fromVersion, toVersion, migrationFn) ==
    IF ~Callable(migrationFn)
    THEN [error |-> "Migration must be a function", migrations |-> reg]
    ELSE LET outer == IF MapHas(reg, fromVersion) THEN reg
                      ELSE SetProp(reg, fromVersion, << >>)
             inner == SetProp(MapGet(outer, fromVersion), toVersion, migrationFn)
         IN  [error |-> "", migrations |-> SetProp(outer, fromVersion, inner)]

\* a variant of the scan that takes the outgoing edges newest first
ScanOutgoingNewestFirst(outgoing, i, toVersion, current, queue, visited) ==
    LET reversed == [j \in 1..Len(outgoing) |-> outgoing[Len(outgoing) + 1 - j]]
        RECURSIVE Scan(_, _, _)
        Scan(j, q, seen) ==
            IF j > Len(reversed)
            THEN [found |-> FALSE, path |-> << >>, queue |-> q, visited |-> seen]
            ELSE LET nextVersion == reversed[j].k
                     newPath == Append(current.path, Step(current.version, nextVersion))
                 IN  IF nextVersion \in seen THEN Scan(j + 1, q, seen)
                     ELSE IF nextVersion = toVersion
                     THEN [found |-> TRUE, path |-> newPath, queue |-> q, visited |-> seen]
                     ELSE Scan(j + 1,
                               Append(q, [version |-> nextVersion, path |-> newPath]),
                               seen \cup {nextVersion})
    IN  Scan(i, queue, visited)

\* for (const [nextVersion, _] of outgoingMigrations) { ... } from entry i on
RECURSIVE ScanOutgoing(_, _, _, _, _, _)
ScanOutgoing(outgoing, i, toVersion, current, queue, visited) ==
    IF i > Len(outgoing)
    THEN [found |-> FALSE, path |-> << >>, queue |-> queue, visited |-> visited]
    ELSE LET nextVersion == outgoing[i].k
             newPath == Append(current.path, Step(current.version, nextVersion))
         IN  IF nextVersion \in visited
             THEN ScanOutgoing(outgoing, i + 1, toVersion, current, queue, visited)
             ELSE IF nextVersion = toVersion
             THEN [found |-> TRUE, path |-> newPath, queue |-> queue, visited |-> visited]
             ELSE ScanOutgoing(outgoing, i + 1, toVersion, current,
                               Append(queue, [version |-> nextVersion, path |-> newPath]),
                               visited \cup {nextVersion})

\* while (queue.length > 0) { ... }
RECURSIVE SearchQueue(_, _, _, _)
SearchQueue(reg, toVersion, queue, visited) ==
    IF queue = << >>
    THEN << >>
    ELSE LET current == Head(queue)
         IN  IF ~MapHas(reg, current.version)
             THEN SearchQueue(reg, toVersion, Tail(queue), visited)
             ELSE LET r == ScanOutgoing(MapGet(reg, current.version), 1, toVersion,
                                        current, Tail(queue), visited)
                  IN  IF r.found THEN r.path
                      ELSE SearchQueue(reg, toVersion, r.queue, r.visited)

\* _findMigrationPath
findMigrationPath(reg, fromVersion, toVersion) ==
    IF fromVersion = toVersion
    THEN << >>
    ELSE SearchQueue(reg, toVersion, <<[version |-> fromVersion, path |-> << >>]>>,
                     {fromVersion})

\* hasMigration
hasMigration(reg, fromVersion, toVersion) ==
    Len(findMigrationPath(reg, fromVersion, toVersion)) > 0

\* getMigrations
getMigrations(reg) ==
    Flatten([i \in 1..Len(reg) |->
                [j \in 1..Len(reg[i].v) |-> Step(reg[i].k, reg[i].v[j].k)]])

\* Documents handed to migrate are objects of a store: store[o] holds the own
\* properties of object o, and a property whose value is an object holds Obj
\* of it, so that two documents can share one meta object.
Obj(o) == [t |-> "obj", o |-> o]

\* object[key] in a store; undefined when absent
Field(store, o, key) == Get(Map(store[o]), key)

\* artifact.meta?.schemaVersion ?? 0
SourceVersion(store, o) ==
    LET meta == Field(store, o, "meta")
        version == IF meta.t = "obj" THEN Field(store, meta.o, "schemaVersion") ELSE Undef
    IN  IF version.t \in {"undef", "null"} THEN 0 ELSE version.n

\* migrationFn(migratedArtifact): the transforms of Migrations.spec.js
\*   identity  (artifact) => artifact
\*   spread    (artifact) => ({ ...artifact, [mark]: true })
\*   meta      (artifact) => ({ ...artifact, meta: { schemaVersion: 1 } })
Apply(migrationFn, store, o) ==
    CASE migrationFn.kind = "identity" -> [store |-> store, out |-> o]
      [] migrationFn.kind = "spread" ->
           [store |-> Append(store, SetProp(store[o], migrationFn.mark, Bool(TRUE))),
            out |-> Len(store) + 1]
      [] migrationFn.kind = "meta" ->
           [store |-> store \o << <<P("schemaVersion", Num(1))>>,
                                  SetProp(store[o], "meta", Obj(Len(store) + 1)) >>,
            out |-> Len(store) + 2]

\* if (migratedArtifact.meta) { migratedArtifact.meta.schemaVersion = step.to }
UpdateVersion(store, o, version) ==
    LET meta == Field(store, o, "meta")
    IN  IF meta.t = "obj"
        THEN [store EXCEPT ![meta.o] = SetProp(@, "schemaVersion", Num(version))]
        ELSE store

\* a variant of the loop that hands every transform the document migrate was
\* given instead of the previous transform's output
RECURSIVE ApplyPathSameInput(_, _, _, _, _, _)
ApplyPathSameInput(reg, store, migratedArtifact, path, i, calls) ==
    IF i > Len(path)
    THEN [store |-> store, result |-> migratedArtifact, calls |-> calls]
    ELSE LET step == path[i]
             migrationFn == MapGet(MapGet(reg, step.from), step.to)
             given == IF calls = << >> THEN migratedArtifact ELSE calls[1].arg
             r == Apply(migrationFn, store, given)
         IN  ApplyPathSameInput(reg, UpdateVersion(r.store, r.out, step.to), r.out, path,
                                i + 1,
                                Append(calls, [from |-> step.from, to |-> step.to,
                                               fn |-> migrationFn, arg |-> given,
                                               out |-> r.out]))

\* for (const step of path) { ... } from step i on; calls lists the
\* transforms invoked, each with the object it received and the one it returned
RECURSIVE ApplyPath(_, _, _, _, _, _)
ApplyPath(reg, store, migratedArtifact, path, i, calls) ==
    IF i > Len(path)
    THEN [store |-> store, result |-> migratedArtifact, calls |-> calls]
    ELSE LET step == path[i]
             migrationFn == MapGet(MapGet(reg, step.from), step.to)
             r == Apply(migrationFn, store, migratedArtifact)
         IN  ApplyPath(reg, UpdateVersion(r.store, r.out, step.to), r.out, path, i + 1,
                       Append(calls, [from |-> step.from, to |-> step.to,
                                      fn |-> migrationFn, arg |-> migratedArtifact,
                                      out |-> r.out]))

\* a variant of migrate that searches for a path even when the document is at
\* the target version already
migrateAlwaysSearching(reg, store, artifact, targetVersion) ==
    LET sourceVersion == SourceVersion(store, artifact)
        path == findMigrationPath(reg, sourceVersion, targetVersion)
        none == [error |-> "", named |-> << >>, store |-> store, result |-> artifact,
                 path |-> << >>, calls |-> << >>]
    IN  IF Len(path) = 0
        THEN [none EXCEPT !.error = "No migration path from version ${sourceVersion} to ${targetVersion}",
                          !.named = <<sourceVersion, targetVersion>>]
        ELSE LET r == ApplyPath(reg, store, artifact, path, 1, << >>)
             IN  [none EXCEPT !.store = r.store, !.result = r.result, !.path = path,
                              !.calls = r.calls]

\* a variant of migrate that hands the document back when it finds no path
migrateUnlessNoPath(reg, store, artifact, targetVersion) ==
    LET sourceVersion == SourceVersion(store, artifact)
        path == findMigrationPath(reg, sourceVersion, targetVersion)
        none == [error |-> "", named |-> << >>, store |-> store, result |-> artifact,
                 path |-> << >>, calls |-> << >>]
    IN  IF sourceVersion = targetVersion \/ Len(path) = 0
        THEN none
        ELSE LET r == ApplyPath(reg, store, artifact, path, 1, << >>)
             IN  [none EXCEPT !.store = r.store, !.result = r.result, !.path = path,
                              !.calls = r.calls]

\* migrate(artifact, targetVersion); the two versions the error message names
\* are kept beside its text
migrate(reg, store, artifact, targetVersion) ==
    LET sourceVersion == SourceVersion(store, artifact)
        path == findMigrationPath(reg, sourceVersion, targetVersion)
        none == [error |-> "", named |-> << >>, store |-> store, result |-> artifact,
                 path |-> << >>, calls |-> << >>]
    IN  IF sourceVersion = targetVersion
        THEN none
        ELSE IF Len(path) = 0
        THEN [none EXCEPT !.error = "No migration path from version ${sourceVersion} to ${targetVersion}",
                          !.named = <<sourceVersion, targetVersion>>]
        ELSE LET r == ApplyPath(reg, store, artifact, path, 1, << >>)
             IN  [none EXCEPT !.store = r.store, !.result = r.result, !.path = path,
                              !.calls = r.calls]

(***************************************************************************)
(* World.loadArtifact: migration, then validation, then the deserializer.  *)
(***************************************************************************)
\* a document value as a store, its meta block an object of its own
ToStore(d) ==
    LET meta == Get(d, "meta")
    IN  IF meta.t = "map"
        THEN [store |-> <<meta.m, SetProp(d.m, "meta", Obj(1))>>, artifact |-> 2]
        ELSE [store |-> <<d.m>>, artifact |-> 1]

\* the document value of an object of a store
FromStore(store, o) ==
    Map([i \in 1..Len(store[o]) |->
            IF store[o][i].v.t = "obj"
            THEN P(store[o][i].k, Map(store[store[o][i].v.o]))
            ELSE store[o][i]])

\* a variant of the migration step that migrates whatever autoMigrate says
ProcessArtifactAlways(reg, options, d) ==
    LET s == ToStore(d)
        r == migrate(reg, s.store, s.artifact, CURRENT_SCHEMA_VERSION)
    IN  IF SourceVersion(s.store, s.artifact) # CURRENT_SCHEMA_VERSION
        THEN [called |-> TRUE, error |-> r.error, given |-> s, r |-> r,
              doc |-> IF r.error = "" THEN FromStore(r.store, r.result) ELSE d]
        ELSE [called |-> FALSE, error |-> "", given |-> s, r |-> r, doc |-> d]

\* let processedArtifact = artifact; if (autoMigrate) { ... }
ProcessArtifact(reg, options, d) ==
    LET s == ToStore(d)
        r == migrate(reg, s.store, s.artifact, CURRENT_SCHEMA_VERSION)
    IN  IF options.autoMigrate /\ SourceVersion(s.store, s.artifact) # CURRENT_SCHEMA_VERSION
        THEN [called |-> TRUE, error |-> r.error, given |-> s, r |-> r,
              doc |-> IF r.error = "" THEN FromStore(r.store, r.result) ELSE d]
        ELSE [called |-> FALSE, error |-> "", given |-> s, r |-> r, doc |-> d]

(***************************************************************************)
(* State.                                                                  *)
(***************************************************************************)
VARIABLES
    pc,        \* where the run stands
    heap,      \* the Entity objects constructed so far
    world,     \* the saved world's _entities
    nextId,    \* the saved world's _id
    sopts,     \* the options of createArtifact
    artifact,  \* what createArtifact returned
    json,      \* the JSON value of the text toJSON returned
    doc,       \* the document handed to validate / loadArtifact
    flags,     \* what happened to doc on its way: transported, tampered
    vopts,     \* the validator's options
    verr,      \* the code of the error validate raised, "" when none
    dopts,     \* the deserializer's options
    dst,       \* the deserializer's state, target world included
    migrations,\* the engine's MigrationRegistry: its _migrations map
    mout,      \* the last call made on the registry and what came of it
    lopts,     \* the options of loadArtifact
    bfs,       \* the serializer's reference expansion, step by step
    pass,      \* the populate pass, step by step: the record and field group it is at
    sum        \* a checksum computation, character by character

\* the stepwise populate pass and the checksum computation
xvars == <<pass, sum>>

\* the registry, the load options and the expansion: untouched by the pipeline
mvars == <<migrations, mout, lopts, bfs, xvars>>

vars == <<pc, heap, world, nextId, sopts, artifact, json, doc, flags, vopts, verr,
          dopts, dst, mvars>>

\* a deserializer into a world that holds the given entities
NewDeserializer(targetWorld, targetNextId) ==
    [world |-> targetWorld, nextId |-> targetNextId, entityMap |-> << >>,
     entities |-> << >>, error |-> "", missing |-> Undef]

\* the deserializer's view of the objects: its own state and the heap
WithHeap(st, h) ==
    [heap |-> h, world |-> st.world, nextId |-> st.nextId, entityMap |-> st.entityMap,
     entities |-> st.entities, error |-> st.error, missing |-> st.missing]

WithoutHeap(st) ==
    [world |-> st.world, nextId |-> st.nextId, entityMap |-> st.entityMap,
     entities |-> st.entities, error |-> st.error, missing |-> st.missing]

NoFlags == [transported |-> FALSE, tampered |-> FALSE]

\* no call made on the registry yet.  A call leaves its name and arguments
\* (from, to, fn; store, artifact, target), the registry as it was before the
\* call, the error it threw and, for migrate, the store afterwards, the object
\* returned, the path taken and the transforms invoked
NoCall == [op |-> "none", from |-> 0, to |-> 0, fn |-> Undef, before |-> << >>,
           input |-> << >>, artifact |-> 0, target |-> 0, error |-> "", named |-> << >>,
           store |-> << >>, result |-> 0, path |-> << >>, calls |-> << >>]

\* loadArtifact's own options: const { validate = true, autoMigrate = true } = options
DEFAULT_LOAD_OPTIONS == [validate |-> TRUE, autoMigrate |-> TRUE]

\* no reference expansion under way.  An expansion holds the locals of
\* _collectReferencedEntities (pending: what the for loop has yet to take from
\* currentLevel) and the serializer's referencedEntities; hooked lists the
\* entities _serializeEntity has been called with, in order, which are the
\* invocations of a beforeSerialize hook when one is set
NoExpansion == [toInclude |-> << >>, visited |-> {}, referenced |-> << >>,
                currentLevel |-> << >>, pending |-> << >>, nextLevel |-> << >>,
                depth |-> 0, hooked |-> << >>]

\* the populate pass before its first record: the record (idx) and the field
\* group (j) the forEach and the for...in loop stand at, and the field
\* groups skipped with a warning so far, as <<idx, j>>
NoPass == [idx |-> 1, j |-> 1, skipped |-> << >>]

\* no checksum computation under way: the string, the index of the loop,
\* the running hash and the hashes it went through, the checksum returned,
\* and for verifyChecksum the expected checksum and the answer
NoSum == [data |-> << >>, i |-> 0, hash |-> 0, trail |-> << >>,
          out |-> Undef, expected |-> Undef, ok |-> FALSE]

\* new MigrationRegistry(): an empty map; nothing called, nothing loading
InitRegistry ==
    /\ migrations = << >>
    /\ mout = NoCall
    /\ lopts = DEFAULT_LOAD_OPTIONS
    /\ bfs = NoExpansion
    /\ pass = NoPass
    /\ sum = NoSum

Init ==
    /\ pc = "build"
    /\ heap = << >>
    /\ world = << >>
    /\ nextId = 0
    /\ sopts = DEFAULT_SERIALIZE_OPTIONS
    /\ artifact = Undef
    /\ json = Undef
    /\ doc = Undef
    /\ flags = NoFlags
    /\ vopts = DEFAULT_VALIDATOR_OPTIONS
    /\ verr = ""
    /\ dopts = DEFAULT_DESERIALIZE_OPTIONS
    /\ dst = NewDeserializer(<< >>, 0)
    /\ InitRegistry

(***************************************************************************)
(* Building the saved world.                                               *)
(***************************************************************************)
\* world.createEntity() while the world holds fewer than max entities
CreateEntity(max) ==
    /\ pc = "build"
    /\ Len(world) < max
    /\ LET st == createEntity([heap |-> heap, world |-> world, nextId |-> nextId],
                              "saved", Undef, TRUE)
       IN  /\ heap' = st.heap
           /\ world' = st.world
           /\ nextId' = st.nextId
    /\ UNCHANGED mvars
    /\ UNCHANGED <<pc, sopts, artifact, json, doc, flags, vopts, verr, dopts, dst>>

\* entity.serializable = false
SetTransient(o) ==
    /\ pc = "build"
    /\ heap[o].serializable
    /\ heap[o].comps = << >>
    /\ heap' = [heap EXCEPT ![o].serializable = FALSE]
    /\ UNCHANGED mvars
    /\ UNCHANGED <<pc, world, nextId, sopts, artifact, json, doc, flags, vopts, verr,
                   dopts, dst>>

NumComponents(h) ==
    LET Count[i \in 0..Len(h)] ==
            IF i = 0 THEN 0
            ELSE Count[i - 1]
                 + Len(Flatten([j \in 1..Len(h[i].comps) |-> HolderComponents(h[i].comps[j].v)]))
    IN  Count[Len(h)]

\* entity.add(Class, properties) while fewer than max components exist
AddComponent(max, o, type, properties) ==
    /\ pc = "build"
    /\ NumComponents(heap) < max
    /\ EntityAdd(heap[o].comps, type, properties) # heap[o].comps
    /\ heap' = [heap EXCEPT ![o].comps = EntityAdd(@, type, properties)]
    /\ UNCHANGED mvars
    /\ UNCHANGED <<pc, world, nextId, sopts, artifact, json, doc, flags, vopts, verr,
                   dopts, dst>>

(***************************************************************************)
(* Saving, transport, loading.                                             *)
(***************************************************************************)
\* world.createArtifact(options)
CreateArtifact(options) ==
    /\ pc = "build"
    /\ LET r == serialize(heap, world, options)
       IN  /\ artifact' = r.artifact
           /\ pc' = IF r.error = "" THEN "artifact" ELSE r.error
    /\ sopts' = options
    /\ UNCHANGED mvars
    /\ UNCHANGED <<heap, world, nextId, json, doc, flags, vopts, verr, dopts, dst>>

\* serializer.toJSON(artifact)
ToJSON ==
    /\ pc = "artifact"
    /\ json' = toJSON(artifact)
    /\ pc' = "json"
    /\ UNCHANGED mvars
    /\ UNCHANGED <<heap, world, nextId, sopts, artifact, doc, flags, vopts, verr,
                   dopts, dst>>

\* ArtifactDeserializer.fromJSON(text)
FromJSON ==
    /\ pc = "json"
    /\ doc' = fromJSON(json)
    /\ flags' = [flags EXCEPT !.transported = TRUE]
    /\ pc' = "document"
    /\ UNCHANGED mvars
    /\ UNCHANGED <<heap, world, nextId, sopts, artifact, json, vopts, verr, dopts, dst>>

\* the artifact object itself is handed on, without transport
Keep ==
    /\ pc = "artifact"
    /\ doc' = artifact
    /\ pc' = "document"
    /\ UNCHANGED mvars
    /\ UNCHANGED <<heap, world, nextId, sopts, artifact, json, flags, vopts, verr,
                   dopts, dst>>
\* the entity lists a modification of the document's entity list leaves:
\* one record removed, or one 'slot' group's item overwritten
Tamperings(records) ==
    {SelectSeq([i \in 1..Len(records) |-> IF i = d THEN Undef ELSE records[i]],
               LAMBDA r : r # Undef) : d \in 1..Len(records)}
    \cup {[records EXCEPT ![i] = Map(SetProp(@.m, "slot", Map(<<P("item", v)>>)))] :
            i \in {j \in 1..Len(records) : Truthy(Get(records[j], "slot"))},
            v \in {Str(<<66, 66>>)}}

\* the entity list of a document that records a checksum is modified
Tamper(entities) ==
    /\ pc = "document"
    /\ ~flags.tampered
    /\ Truthy(OptGet(Get(doc, "meta"), "checksum"))
    /\ entities # Get(doc, "entities").a
    /\ doc' = Map(SetProp(doc.m, "entities", Arr(entities)))
    /\ flags' = [flags EXCEPT !.tampered = TRUE]
    /\ UNCHANGED mvars
    /\ UNCHANGED <<pc, heap, world, nextId, sopts, artifact, json, vopts, verr,
                   dopts, dst>>

\* a variant of the load that has the deserializer create the entities
\* before the validator is asked
ValidateArtifactAfterCreating ==
    /\ pc = "document"
    /\ verr' = validate(vopts, doc)
    /\ pc' = IF verr' = "" THEN "populate" ELSE "invalid"
    /\ LET st == CreateEntitiesFrom(WithHeap(dst, heap), "loaded", EntitiesData(doc), 1)
       IN  heap' = st.heap /\ dst' = WithoutHeap(st)
    /\ UNCHANGED mvars
    /\ UNCHANGED <<world, nextId, sopts, artifact, json, doc, flags, vopts, dopts>>

\* loadArtifact's validation: new ArtifactValidator(engine, options).validate(doc)
ValidateArtifact ==
    /\ pc = "document"
    /\ verr' = validate(vopts, doc)
    /\ pc' = IF verr' = "" THEN "materialize" ELSE "invalid"
    /\ UNCHANGED mvars
    /\ UNCHANGED <<heap, world, nextId, sopts, artifact, json, doc, flags, vopts, dopts, dst>>

\* deserialize, pass 1
CreateEntities ==
    /\ pc = "materialize"
    /\ LET st == CreateEntitiesFrom(WithHeap(dst, heap), "loaded", EntitiesData(doc), 1)
       IN  /\ heap' = st.heap
           /\ dst' = WithoutHeap(st)
           /\ pc' = IF st.error = "" THEN "populate" ELSE "failed"
    /\ UNCHANGED mvars
    /\ UNCHANGED <<world, nextId, sopts, artifact, json, doc, flags, vopts, verr, dopts>>

\* deserialize, pass 2
AddComponents ==
    /\ pc = "populate"
    /\ LET st == AddComponentsPass(WithHeap(dst, heap), dopts, EntitiesData(doc), 1)
       IN  /\ heap' = st.heap
           /\ dst' = WithoutHeap(st)
           /\ pc' = IF st.error = "" THEN "link" ELSE "failed"
    /\ UNCHANGED mvars
    /\ UNCHANGED <<world, nextId, sopts, artifact, json, doc, flags, vopts, verr, dopts>>

\* deserialize, pass 3
ResolveReferences ==
    /\ pc = "link"
    /\ LET st == ResolveEntityReferences(WithHeap(dst, heap), dopts, 1)
       IN  /\ heap' = st.heap
           /\ dst' = WithoutHeap(st)
           /\ pc' = IF st.error = "" THEN "loaded" ELSE "failed"
    /\ UNCHANGED mvars
    /\ UNCHANGED <<world, nextId, sopts, artifact, json, doc, flags, vopts, verr, dopts>>

(***************************************************************************)
(* Pass 2 of deserialize, statement by statement.                          *)
(***************************************************************************)
\* _addComponents, forEach callback up to the loop: entity._qeligible = false
SuspendRecord ==
    /\ pc = "populate"
    /\ pass.idx <= Len(EntitiesData(doc))
    /\ heap' = [heap EXCEPT ![dst.entities[pass.idx]] = Suspend(@)]
    /\ pass' = [pass EXCEPT !.j = 1]
    /\ pc' = "attaching"
    /\ UNCHANGED <<migrations, mout, lopts, bfs, sum>>
    /\ UNCHANGED <<world, nextId, sopts, artifact, json, doc, flags, vopts, verr, dopts, dst>>

\* one turn of the for...in loop: this._addComponent(entity, componentName, ...)
AttachGroup ==
    /\ pc = "attaching"
    /\ LET groups == ComponentsOf(EntitiesData(doc)[pass.idx])
           o == dst.entities[pass.idx]
       IN  /\ pass.j <= Len(groups)
           /\ LET r == addComponent(dopts, heap[o], groups[pass.j].k, groups[pass.j].v)
              IN  /\ heap' = [heap EXCEPT ![o] = r.entity]
                  /\ dst' = IF r.error = "" THEN dst
                            ELSE [dst EXCEPT !.error = r.error, !.missing = r.named]
                  /\ pass' = [pass EXCEPT !.j = @ + 1,
                                          !.skipped = IF r.skipped
                                                      THEN Append(@, <<pass.idx, pass.j>>)
                                                      ELSE @]
                  /\ pc' = IF r.error = "" THEN "attaching" ELSE "failed"
    /\ UNCHANGED <<migrations, mout, lopts, bfs, sum>>
    /\ UNCHANGED <<world, nextId, sopts, artifact, json, doc, flags, vopts, verr, dopts>>

\* after the loop: entity._qeligible = true; entity._candidacy(); next record
ResumeRecord ==
    /\ pc = "attaching"
    /\ pass.j > Len(ComponentsOf(EntitiesData(doc)[pass.idx]))
    /\ heap' = [heap EXCEPT ![dst.entities[pass.idx]] = Resume(@)]
    /\ pass' = [pass EXCEPT !.idx = @ + 1, !.j = 1]
    /\ pc' = "populate"
    /\ UNCHANGED <<migrations, mout, lopts, bfs, sum>>
    /\ UNCHANGED <<world, nextId, sopts, artifact, json, doc, flags, vopts, verr, dopts, dst>>

\* the forEach of _addComponents is through: deserialize goes on to pass 3
FinishPopulate ==
    /\ pc = "populate"
    /\ pass.idx > Len(EntitiesData(doc))
    /\ pc' = "link"
    /\ UNCHANGED mvars
    /\ UNCHANGED <<heap, world, nextId, sopts, artifact, json, doc, flags, vopts, verr,
                   dopts, dst>>

(***************************************************************************)
(* calculateChecksum, character by character, and verifyChecksum.          *)
(***************************************************************************)
\* one turn of the for loop of calculateChecksum
HashChar ==
    /\ pc = "hashing"
    /\ sum.i < Len(sum.data)
    /\ LET hash == HashStep(sum.hash, sum.data[sum.i + 1])
       IN  sum' = [sum EXCEPT !.i = @ + 1, !.hash = hash, !.trail = Append(@, hash)]
    /\ UNCHANGED <<migrations, mout, lopts, bfs, pass>>
    /\ UNCHANGED <<pc, heap, world, nextId, sopts, artifact, json, doc, flags, vopts, verr,
                   dopts, dst>>

\* return `simple:${hash.toString(16)}`
ReturnChecksum ==
    /\ pc = "hashing"
    /\ sum.i = Len(sum.data)
    /\ sum' = [sum EXCEPT !.out = Str(SimpleTag \o Hex32(sum.hash))]
    /\ pc' = "checksum"
    /\ UNCHANGED <<migrations, mout, lopts, bfs, pass>>
    /\ UNCHANGED <<heap, world, nextId, sopts, artifact, json, doc, flags, vopts, verr,
                   dopts, dst>>

\* verifyChecksum(data, expectedChecksum)
VerifyChecksum(expectedChecksum) ==
    /\ pc = "checksum"
    /\ sum' = [sum EXCEPT !.expected = expectedChecksum,
                          !.ok = verifyChecksum(sum.data, expectedChecksum)]
    /\ pc' = "verified"
    /\ UNCHANGED <<migrations, mout, lopts, bfs, pass>>
    /\ UNCHANGED <<heap, world, nextId, sopts, artifact, json, doc, flags, vopts, verr,
                   dopts, dst>>

(***************************************************************************)
(* The engine's migration registry.                                        *)
(***************************************************************************)
\* registry.register(fromVersion, toVersion, migrationFn) while fewer than max
\* edges are registered
Register(max, fromVersion, toVersion, migrationFn) ==
    /\ pc = "registry"
    /\ Len(getMigrations(migrations)) < max
    /\ LET r == register(migrations, fromVersion, toVersion, migrationFn)
       IN  /\ migrations' = r.migrations
           /\ mout' = [NoCall EXCEPT !.op = "register", !.from = fromVersion,
                                     !.to = toVersion, !.fn = migrationFn,
                                     !.before = migrations, !.error = r.error]
    /\ UNCHANGED <<lopts, bfs, xvars>>
    /\ UNCHANGED <<pc, heap, world, nextId, sopts, artifact, json, doc, flags, vopts, verr,
                   dopts, dst>>

\* registry.migrate(artifact, targetVersion) on a document of a store
Migrate(store, theArtifact, targetVersion) ==
    /\ pc = "registry"
    /\ LET r == migrate(migrations, store, theArtifact, targetVersion)
       IN  mout' = [NoCall EXCEPT !.op = "migrate", !.before = migrations,
                                  !.input = store, !.artifact = theArtifact,
                                  !.target = targetVersion, !.error = r.error,
                                  !.named = r.named, !.store = r.store,
                                  !.result = r.result, !.path = r.path,
                                  !.calls = r.calls]
    /\ pc' = "migrated"
    /\ UNCHANGED <<migrations, lopts, bfs, xvars>>
    /\ UNCHANGED <<heap, world, nextId, sopts, artifact, json, doc, flags, vopts, verr,
                   dopts, dst>>

(***************************************************************************)
(* Loading a document into an empty world of an engine with migrations.    *)
(***************************************************************************)
\* world.loadArtifact(artifact, options) is called: nothing has run yet
ReceiveArtifact(d, options) ==
    /\ pc = "registry"
    /\ pc' = "received"
    /\ artifact' = d
    /\ doc' = d
    /\ lopts' = options
    /\ mout' = NoCall
    /\ UNCHANGED <<migrations, bfs, xvars>>
    /\ UNCHANGED <<heap, world, nextId, sopts, json, flags, vopts, verr, dopts, dst>>

\* loadArtifact up to its validation, for a document with a meta block: the
\* migration, when there is one, yields the document the rest of the load
\* works on; a migration error leaves loadArtifact
MigrateArtifact ==
    /\ pc = "received"
    /\ Truthy(Get(doc, "meta"))
    /\ LET p == ProcessArtifact(migrations, lopts, doc)
       IN  /\ doc' = p.doc
           /\ mout' = IF p.called
                      THEN [NoCall EXCEPT !.op = "migrate", !.before = migrations,
                                          !.input = p.given.store,
                                          !.artifact = p.given.artifact,
                                          !.target = CURRENT_SCHEMA_VERSION,
                                          !.error = p.r.error, !.named = p.r.named,
                                          !.store = p.r.store, !.result = p.r.result,
                                          !.path = p.r.path, !.calls = p.r.calls]
                      ELSE NoCall
           /\ pc' = IF p.error # "" THEN "unmigrated"
                    ELSE IF lopts.validate THEN "document" ELSE "materialize"
    /\ UNCHANGED <<migrations, lopts, bfs, xvars>>
    /\ UNCHANGED <<heap, world, nextId, sopts, artifact, json, flags, vopts, verr, dopts,
                   dst>>

(***************************************************************************)
(* serialize, step by step through its reference expansion.                *)
(***************************************************************************)
\* serialize up to the call of _collectReferencedEntities: the roots are
\* collected and serialized, which fills processedEntities and
\* referencedEntities
BeginSerialize(options) ==
    /\ pc = "build"
    /\ LET entities == CollectEntities(heap, world, options)
           processed == {heap[entities[i]].id : i \in 1..Len(entities)}
           referenced == SetAddAll(<< >>, Flatten([i \in 1..Len(entities) |->
                                                     EntityRefs(heap, options, entities[i])]))
       IN  bfs' = [NoExpansion EXCEPT !.visited = processed, !.referenced = referenced,
                                      !.currentLevel = referenced,
                                      !.hooked = entities]
    /\ sopts' = options
    /\ pc' = IF options.resolveReferences THEN "expanding" ELSE "collected"
    /\ UNCHANGED <<migrations, mout, lopts, xvars>>
    /\ UNCHANGED <<heap, world, nextId, artifact, json, doc, flags, vopts, verr, dopts, dst>>

\* while (currentLevel.length > 0 && depth < this.options.maxDepth)
TestLevel ==
    /\ pc = "expanding"
    /\ IF bfs.currentLevel # << >> /\ bfs.depth < sopts.maxDepth
       THEN /\ pc' = "visiting"
            /\ bfs' = [bfs EXCEPT !.nextLevel = << >>, !.pending = bfs.currentLevel]
       ELSE /\ pc' = "collected"
            /\ bfs' = bfs
    /\ UNCHANGED <<migrations, mout, lopts, xvars>>
    /\ UNCHANGED <<heap, world, nextId, sopts, artifact, json, doc, flags, vopts, verr,
                   dopts, dst>>

\* one turn of for (const entity of currentLevel)
VisitEntity ==
    /\ pc = "visiting"
    /\ bfs.pending # << >>
    /\ LET after == CollectLevel(heap, sopts, <<Head(bfs.pending)>>,
                                 [visited |-> bfs.visited, toInclude |-> bfs.toInclude,
                                  referenced |-> bfs.referenced,
                                  nextLevel |-> bfs.nextLevel])
       IN  bfs' = [bfs EXCEPT !.visited = after.visited, !.toInclude = after.toInclude,
                              !.referenced = after.referenced,
                              !.nextLevel = after.nextLevel, !.pending = Tail(bfs.pending),
                              !.hooked = IF heap[Head(bfs.pending)].id \in bfs.visited
                                         THEN bfs.hooked
                                         ELSE Append(bfs.hooked, Head(bfs.pending))]
    /\ UNCHANGED <<migrations, mout, lopts, xvars>>
    /\ UNCHANGED <<pc, heap, world, nextId, sopts, artifact, json, doc, flags, vopts, verr,
                   dopts, dst>>

\* currentLevel = nextLevel; depth++
AdvanceLevel ==
    /\ pc = "visiting"
    /\ bfs.pending = << >>
    /\ bfs' = [bfs EXCEPT !.currentLevel = bfs.nextLevel, !.depth = bfs.depth + 1]
    /\ pc' = "expanding"
    /\ UNCHANGED <<migrations, mout, lopts, xvars>>
    /\ UNCHANGED <<heap, world, nextId, sopts, artifact, json, doc, flags, vopts, verr,
                   dopts, dst>>

\* the rest of serialize: the records of toInclude are made by a call of
\* _serializeEntity each (the records of the roots were made before the
\* expansion), then the metadata and the document
FinishSerialize ==
    /\ pc = "collected"
    /\ LET r == BuildArtifact(heap, sopts, CollectEntities(heap, world, sopts) \o bfs.toInclude)
       IN  /\ artifact' = r.artifact
           /\ pc' = IF r.error = "" THEN "artifact" ELSE r.error
    /\ bfs' = [bfs EXCEPT !.hooked = IF sopts.resolveReferences
                                     THEN bfs.hooked \o bfs.toInclude ELSE bfs.hooked]
    /\ UNCHANGED <<migrations, mout, lopts, xvars>>
    /\ UNCHANGED <<heap, world, nextId, sopts, json, doc, flags, vopts, verr, dopts, dst>>

(***************************************************************************)
(* Save, transport, load: a world of up to MaxEntities entities and        *)
(* MaxComponents components is saved, the artifact is kept or taken        *)
(* through toJSON / fromJSON, possibly modified, and loaded into an empty  *)
(* world with the default options.                                         *)
(***************************************************************************)
EpochISO ==
    <<49, 57, 55, 48, 45, 48, 49, 45, 48, 49, 84, 48, 48, 58, 48, 48, 58, 48, 48, 46, 48, 48,
      48, 90>>

\* the values a component's item takes in the saved world
SavedItems(h) ==
    {Str(<<65, 97>>), Big(-7), Date(EpochISO), Map(<<P("entity", Num(1))>>)}
    \cup {Ent(o) : o \in 1..Len(h)}
    \cup {Arr(<<Ent(o), Map(<<P("k", Big(-7))>>)>>) : o \in 1..Len(h)}

\* the properties handed to entity.add for a class
PropertiesFor(type, item) ==
    IF Registry[type].keyProperty = "" THEN Map(<<P("item", item)>>)
    ELSE Map(<<P(Registry[type].keyProperty, Str(KeyChars("k"))), P("item", item)>>)

Next ==
    \/ CreateEntity(MaxEntities)
    \/ \E o \in 1..Len(heap), type \in DOMAIN Registry, item \in SavedItems(heap) :
          AddComponent(MaxComponents, o, type, PropertiesFor(type, item))
    \/ \E checksum \in BOOLEAN :
          CreateArtifact([DEFAULT_SERIALIZE_OPTIONS EXCEPT !.checksum = checksum])
    \/ ToJSON
    \/ FromJSON
    \/ Keep
    \/ ValidateArtifact
    \/ CreateEntities
    \/ AddComponents
    \/ ResolveReferences

Spec == Init /\ [][Next]_vars
(***************************************************************************)
(* Comparing the saved and the loaded world.                               *)
(***************************************************************************)
\* w, found in the loaded world, equals v, found in the saved world: equal
\* primitives, equal arrays and maps member by member, and for a reference
\* to a saved entity the loaded world's entity that carries the same id
RECURSIVE SameValue(_, _)
SameValue(v, w) ==
    CASE v.t = "ent" ->
           /\ w.t = "ent"
           /\ heap[w.o].world = "loaded"
           /\ heap[w.o].id = heap[v.o].id
           /\ getEntity(dst.world, heap[v.o].id) = w
      [] v.t = "arr" ->
           /\ w.t = "arr"
           /\ Len(w.a) = Len(v.a)
           /\ \A i \in 1..Len(v.a) : SameValue(v.a[i], w.a[i])
      [] v.t \in {"map", "comp"} ->
           /\ w.t = v.t
           /\ v.t = "comp" => w.c = v.c
           /\ Len(w.m) = Len(v.m)
           /\ \A i \in 1..Len(v.m) : w.m[i].k = v.m[i].k /\ SameValue(v.m[i].v, w.m[i].v)
      [] OTHER -> w.t = v.t /\ w = v

\* every saved entity has a loaded entity of the same id with the same field
\* groups, and the loaded world holds nothing else
SameWorld ==
    /\ Len(dst.world) = Len(world)
    /\ \A i \in 1..Len(world) :
          /\ MapHas(dst.world, world[i].k)
          /\ SameValue(Map(heap[world[i].v].comps),
                       Map(heap[MapGet(dst.world, world[i].k)].comps))

\* a value made of primitives, arbitrary-precision integers, entity
\* references and nested arrays / plain maps of these
RECURSIVE RoundTripValue(_)
RoundTripValue(v) ==
    CASE v.t = "arr" -> \A i \in 1..Len(v.a) : RoundTripValue(v.a[i])
      [] v.t \in {"map", "comp"} -> \A i \in 1..Len(v.m) : RoundTripValue(v.m[i].v)
      [] OTHER -> v.t \in {"undef", "null", "bool", "num", "str", "big", "ent"}

RoundTripWorld ==
    \A i \in 1..Len(world) :
        heap[world[i].v].serializable /\ RoundTripValue(Map(heap[world[i].v].comps))

\* C1: a world whose entities are all serializable and whose property values
\* are primitives, arbitrary-precision integers, entity references or nested
\* arrays / plain maps of these, saved by createArtifact, taken through
\* toJSON and fromJSON and loaded into an empty world, comes back with the
\* same field groups and field values for every entity id, every reference
\* pointing to the loaded entity that carries the referenced id.
C1_RoundTrip ==
    (pc = "loaded" /\ flags.transported /\ RoundTripWorld) => SameWorld

\* the validator has run on the document
Validated == pc \in {"materialize", "invalid"}

\* the digest validate would compute differs from the recorded checksum
DigestDiffers ==
    calculateChecksum(Stringify(Get(doc, "entities"))) # Get(Get(doc, "meta"), "checksum")

\* C6: serialize with checksum and includeMetadata enabled produces a
\* document for every field value kind, its meta.checksum is the digest of
\* its entity list, and the unmodified document, kept or taken through
\* toJSON and fromJSON, passes the validator's checksum check.
C6_ChecksumAcceptance ==
    /\ pc # "TypeError"
    /\ (pc = "artifact" /\ sopts.checksum) =>
          Get(Get(artifact, "meta"), "checksum")
              = calculateChecksum(Stringify(Get(artifact, "entities")))
    /\ (Validated /\ sopts.checksum) =>
          verr \notin {"CHECKSUM_MISMATCH", "TypeError"}
(***************************************************************************)
(* Modification of a saved document: a world of up to MaxRecords entities  *)
(* with 'slot' components is saved with a checksum, the document's entity  *)
(* list is modified, and the validator runs with checksum checking on or   *)
(* off.                                                                    *)
(***************************************************************************)
ChecksumItems(h) == {Str(<<65, 97>>), Num(5)} \cup {Ent(o) : o \in 1..Len(h)}

InitChecksum ==
    /\ pc = "build"
    /\ heap = << >>
    /\ world = << >>
    /\ nextId = 0
    /\ sopts = DEFAULT_SERIALIZE_OPTIONS
    /\ artifact = Undef
    /\ json = Undef
    /\ doc = Undef
    /\ flags = NoFlags
    /\ vopts \in {[DEFAULT_VALIDATOR_OPTIONS EXCEPT !.validateChecksum = b] : b \in BOOLEAN}
    /\ verr = ""
    /\ dopts = DEFAULT_DESERIALIZE_OPTIONS
    /\ dst = NewDeserializer(<< >>, 0)
    /\ InitRegistry

NextChecksum ==
    \/ CreateEntity(MaxRecords)
    \/ \E o \in 1..Len(heap), item \in ChecksumItems(heap) :
          AddComponent(MaxRecords, o, "slot", PropertiesFor("slot", item))
    \/ CreateArtifact([DEFAULT_SERIALIZE_OPTIONS EXCEPT !.checksum = TRUE])
    \/ ToJSON
    \/ FromJSON
    \/ Keep
    \/ \E entities \in Tamperings(EntitiesData(doc)) : Tamper(entities)
    \/ ValidateArtifact

SpecChecksum == InitChecksum /\ [][NextChecksum]_vars

\* C5 as stated: every modification of the entity list of a document that
\* carries a checksum makes validate, with checksum checking enabled, raise
\* CHECKSUM_MISMATCH.
C5_EveryModificationDetected ==
    (Validated /\ flags.tampered /\ vopts.validateChecksum) => verr = "CHECKSUM_MISMATCH"

\* C5 amended: a modification of the entity list after which the digest of
\* the list's JSON text differs from the recorded checksum makes validate,
\* with checksum checking enabled, raise CHECKSUM_MISMATCH; a modification
\* that leaves the 32-bit digest unchanged is accepted by the checksum check.
C5_ModificationDetectedUnlessCollision ==
    (Validated /\ flags.tampered /\ vopts.validateChecksum) =>
        (verr = "CHECKSUM_MISMATCH" <=> DigestDiffers)

C5_Witness ==
    Validated /\ flags.tampered /\ vopts.validateChecksum /\ verr = "CHECKSUM_MISMATCH"
(***************************************************************************)
(* Validation of arbitrary documents: the document and the validator's     *)
(* options are drawn from bounded sets, validate runs on them.             *)
(***************************************************************************)
Ref(id) == Map(<<P("$ref", id)>>)

Record(id, groups) == Map(<<P("id", id)>> \o groups)

\* the sequences of at most n members of a set
SeqsUpTo(set, n) == UNION {[1..m -> set] : m \in 0..n}

\* the ids of a document's records; AbsentId is the id of none
DocIds == {createId(1), createId(2)}
AbsentId == createId(9)

ValidatorRecords ==
    {Null, Map(<< >>), Record(Str(<< >>), << >>),
     Record(createId(1), << >>),
     Record(createId(1), <<P("slot", Map(<<P("item", Ref(createId(1)))>>))>>),
     Record(createId(1),
            <<P("bag", Arr(<<Map(<<P("item", Arr(<<Map(<<P("k", Ref(createId(2)))>>)>>))>>)>>))>>),
     Record(createId(2), <<P("ghost", Map(<< >>))>>),
     Record(createId(2), <<P("slot", Map(<<P("item", Ref(AbsentId))>>))>>),
     Record(createId(2),
            <<P("slot", Map(<<P("item", Map(<<P("k", Arr(<<Ref(AbsentId)>>))>>))>>))>>)}

StaleChecksum == Str(SimpleTag \o <<48>>)

\* the meta blocks of the documents: none, one that is no object, and
\* objects with a schema version and a checksum or without
ValidatorMetas(records) ==
    {<< >>, <<P("meta", Str(<<120>>))>>, <<P("meta", Map(<< >>))>>}
    \cup {<<P("meta", Map(<<P("schemaVersion", Num(v))>>))>> :
            v \in LEGACY_SCHEMA_VERSION..(CURRENT_SCHEMA_VERSION + 1)}
    \cup {<<P("meta", Map(<<P("schemaVersion", Num(CURRENT_SCHEMA_VERSION + 1)),
                            P("checksum", calculateChecksum(Stringify(Arr(records))))>>))>>,
          <<P("meta", Map(<<P("schemaVersion", Num(CURRENT_SCHEMA_VERSION)),
                            P("checksum", StaleChecksum)>>))>>}

ValidatorDocs ==
    {Null, Map(<<P("entities", Str(<<120>>))>>)}
    \cup {Map(<<P("entities", Arr(records))>> \o meta) :
            <<records, meta>> \in
                UNION {{records} \X ValidatorMetas(records) :
                         records \in SeqsUpTo(ValidatorRecords, MaxRecords)}}

ValidatorOptions ==
    [validateChecksum : BOOLEAN, validateComponents : BOOLEAN,
     validateReferences : BOOLEAN, strictVersion : BOOLEAN]

InitValidate ==
    /\ pc = "document"
    /\ doc \in ValidatorDocs
    /\ vopts \in ValidatorOptions
    /\ heap = << >>
    /\ world = << >>
    /\ nextId = 0
    /\ sopts = DEFAULT_SERIALIZE_OPTIONS
    /\ artifact = Undef
    /\ json = Undef
    /\ flags = NoFlags
    /\ verr = ""
    /\ dopts = DEFAULT_DESERIALIZE_OPTIONS
    /\ dst = NewDeserializer(<< >>, 0)
    /\ InitRegistry

NextValidate == ValidateArtifact

SpecValidate == InitValidate /\ [][NextValidate]_vars
\* the schema version validate reads: an absent meta or schemaVersion is 0
DocVersion == SchemaVersionOf(doc).n

\* the document's meta.schemaVersion set to v
WithVersion(v) ==
    Map(SetProp(doc.m, "meta",
                Map(SetProp(OwnProps(Get(doc, "meta")), "schemaVersion", Num(v)))))

\* the document has an entity list and would pass validation if its schema
\* version were the current one
OtherwiseWellFormed ==
    /\ ValidateStructure(doc) = ""
    /\ validate(vopts, WithVersion(CURRENT_SCHEMA_VERSION)) = ""

\* the checks that precede the schema version check pass
VersionCheckReached ==
    \A i \in 1..2 : RunCheck(vopts, doc, ValidatorChecks[i]) = ""

VersionCodes == {"VERSION_MISMATCH", "VERSION_TOO_NEW"}

\* C7 as stated: under every validator configuration an otherwise well-formed
\* document of a schema version greater than the current one is rejected
\* with code VERSION_TOO_NEW.
C7_NewerVersionTooNew ==
    (Validated /\ OtherwiseWellFormed /\ DocVersion > CURRENT_SCHEMA_VERSION)
        => verr = "VERSION_TOO_NEW"

\* C7 amended: an otherwise well-formed document of a schema version greater
\* than the current one is always rejected: with code VERSION_TOO_NEW when
\* strictVersion is off, with code VERSION_MISMATCH when strictVersion is on.
C7_NewerVersionRejected ==
    (Validated /\ OtherwiseWellFormed /\ DocVersion > CURRENT_SCHEMA_VERSION)
        => verr = IF vopts.strictVersion THEN "VERSION_MISMATCH" ELSE "VERSION_TOO_NEW"

C7_Witness ==
    /\ Validated /\ OtherwiseWellFormed /\ DocVersion > CURRENT_SCHEMA_VERSION
    /\ vopts.strictVersion
    /\ Truthy(Get(Get(doc, "meta"), "checksum")) /\ vopts.validateChecksum
    /\ verr = "VERSION_MISMATCH"

\* C8: with strictVersion off a document of a schema version lower than the
\* current one (an absent schemaVersion or meta counting as 0) passes the
\* version check; with strictVersion on the same document is rejected with
\* code VERSION_MISMATCH and only the current version passes the check.
C8_OlderVersions ==
    (Validated /\ VersionCheckReached) =>
        /\ (~vopts.strictVersion /\ DocVersion < CURRENT_SCHEMA_VERSION)
              => verr \notin VersionCodes
        /\ (vopts.strictVersion /\ DocVersion < CURRENT_SCHEMA_VERSION)
              => verr = "VERSION_MISMATCH"
        /\ (vopts.strictVersion /\ verr \notin VersionCodes)
              => DocVersion = CURRENT_SCHEMA_VERSION

C8_Witness ==
    /\ Validated /\ VersionCheckReached
    /\ Get(doc, "meta") = Undef
    /\ vopts.strictVersion
    /\ verr = "VERSION_MISMATCH"

\* the targets of the reference markers found at any depth of a value
RECURSIVE RefTargets(_)
RefTargets(v) ==
    IF v.t = "map" /\ HasProp(v.m, "$ref") THEN {Get(v, "$ref")}
    ELSE IF v.t = "arr" THEN UNION {RefTargets(v.a[i]) : i \in 1..Len(v.a)}
    ELSE IF v.t = "map" THEN UNION {RefTargets(v.m[i].v) : i \in 1..Len(v.m)}
    ELSE {}

\* the targets of the markers in the field groups of the document's records
DocRefTargets ==
    UNION {RefTargets(Map(Rest(OwnProps(Records(doc)[i]), "id"))) : i \in 1..Len(Records(doc))}

\* the ids of the document's records
RecordIds ==
    {Get(Records(doc)[i], "id") : i \in {j \in 1..Len(Records(doc)) :
                                            HasProp(OwnProps(Records(doc)[j]), "id")}}

\* C9: when validate with reference checking enabled returns, every
\* reference marker at any depth of any field group of any record targets
\* the id of a record of the same document; when all the other checks pass, a
\* marker with an absent target is rejected with code INVALID_REFERENCE.
C9_ReferentialClosure ==
    (Validated /\ vopts.validateReferences) =>
        /\ verr = "" => DocRefTargets \subseteq RecordIds
        /\ (/\ ValidateStructure(doc) = ""
            /\ validate([vopts EXCEPT !.validateReferences = FALSE], doc) = ""
            /\ ~(DocRefTargets \subseteq RecordIds))
              => verr = "INVALID_REFERENCE"

C9_Witness ==
    /\ Validated /\ vopts.validateReferences /\ verr = ""
    /\ Ref(createId(2)) \in {Get(Get(Records(doc)[i], "bag").a[1], "item").a[1].m[1].v :
                               i \in {j \in 1..Len(Records(doc)) :
                                        Truthy(Get(Records(doc)[j], "bag"))}}

\* what is wrong with record i of the document, given the records before it
Offence(i) ==
    LET r == Records(doc)[i]
    IN  IF r.t # "map" THEN "INVALID_ENTITY"
        ELSE IF ~HasProp(r.m, "id") \/ Get(r, "id") \in {Null, Undef, Str(<< >>)}
        THEN "MISSING_ENTITY_ID"
        ELSE IF \E j \in 1..(i - 1) : Get(Records(doc)[j], "id") = Get(r, "id")
        THEN "DUPLICATE_ENTITY_ID"
        ELSE ""

Offending == {i \in 1..Len(Records(doc)) : Offence(i) # ""}

\* the checks that precede the entity check pass
EntityCheckReached ==
    \A i \in 1..3 : RunCheck(vopts, doc, ValidatorChecks[i]) = ""

\* C10: when validate returns, every record of the document is an object
\* with a non-empty id and no two records share an id; when the entity check
\* is reached, the first record that is not so is rejected with
\* MISSING_ENTITY_ID if it has no id and DUPLICATE_ENTITY_ID if it repeats
\* an id.
C10_EntityShape ==
    Validated =>
        /\ verr = "" => Offending = {}
        /\ (EntityCheckReached /\ Offending # {}) =>
              verr = Offence(CHOOSE i \in Offending : \A j \in Offending : i <= j)

C10_Witness ==
    /\ Validated /\ EntityCheckReached
    /\ Len(Records(doc)) = 2 /\ Offence(1) = "" /\ Offence(2) = "DUPLICATE_ENTITY_ID"
    /\ verr = "DUPLICATE_ENTITY_ID"
\* the order of the checks and the codes each of them raises
CheckOrder == <<"structure", "checksum", "version", "entities", "components", "references">>

CheckCodes(check) ==
    CASE check = "structure" -> {"INVALID_STRUCTURE"}
      [] check = "checksum" -> {"CHECKSUM_MISMATCH", "TypeError"}
      [] check = "version" -> {"VERSION_MISMATCH", "VERSION_TOO_NEW"}
      [] check = "entities" -> {"INVALID_ENTITY", "MISSING_ENTITY_ID", "DUPLICATE_ENTITY_ID"}
      [] check = "components" -> {"UNKNOWN_COMPONENT"}
      [] check = "references" -> {"INVALID_REFERENCE"}

\* the number of the first check of the order, from check i on, that the
\* document violates under the validator's options; 0 when it violates
\* none.  A check is looked at only when those before it are satisfied.
RECURSIVE FirstViolated(_)
FirstViolated(i) ==
    IF i > Len(CheckOrder) THEN 0
    ELSE IF RunCheck(vopts, doc, CheckOrder[i]) # "" THEN i
    ELSE FirstViolated(i + 1)

\* C18: validate raises exactly when the document violates a check, and the
\* code it raises is the one the earliest violated check of the order
\* structure, checksum, version, entities, components, references raises,
\* whatever later checks the document violates as well.
C18_FailFast ==
    Validated =>
        LET first == FirstViolated(1)
        IN  IF first = 0 THEN verr = ""
            ELSE /\ verr \in CheckCodes(CheckOrder[first])
                 /\ verr = RunCheck(vopts, doc, CheckOrder[first])

\* a document with a stale checksum whose records are unsound as well is
\* rejected for its checksum; one violating three checks for the first
C18_Witness ==
    /\ Validated
    /\ verr = "CHECKSUM_MISMATCH"
    /\ ValidateEntities(doc) # ""

(***************************************************************************)
(* Decoding of arbitrary documents: the document and the deserializer's    *)
(* options are drawn from bounded sets, the three passes run on them, into *)
(* an empty world.                                                         *)
(***************************************************************************)
Item(v) == Map(<<P("item", v)>>)

\* the field groups of the documents' records: references to the records of
\* the document, to itself, to an absent record, at the top of a field and
\* nested; a group of an unregistered type before and after a registered
\* one; several groups
DeserializerGroups ==
    {<< >>,
     <<P("slot", Item(Ref(createId(1))))>>,
     <<P("slot", Item(Ref(createId(2))))>>,
     <<P("slot", Item(Ref(AbsentId)))>>,
     <<P("bag", Arr(<<Item(Arr(<<Ref(createId(2)), Map(<<P("k", Ref(AbsentId))>>)>>)),
                      Item(Ref(createId(1)))>>))>>,
     <<P("ghost", Item(Ref(createId(1)))), P("slot", Item(Ref(createId(2))))>>,
     <<P("slot", Item(Null)), P("ghost", Null)>>,
     <<P("slot", Item(Ref(AbsentId))),
       P("tag", Map(<<P("k", Map(<<P("k", Str(KeyChars("k"))),
                                   P("item", Ref(createId(1)))>>))>>))>>}

DeserializerRecords == {Record(id, groups) : id \in DocIds, groups \in DeserializerGroups}

DeserializerDocs ==
    {Map(<<P("entities", Arr(records))>>) :
        records \in SeqsUpTo(DeserializerRecords, MaxRecords)}

DeserializerOptions ==
    [strictValidation : BOOLEAN, danglingRefs : {"null", "warn", "throw"}]

InitDeserialize ==
    /\ pc = "materialize"
    /\ doc \in DeserializerDocs
    /\ dopts \in DeserializerOptions
    /\ heap = << >>
    /\ world = << >>
    /\ nextId = 0
    /\ sopts = DEFAULT_SERIALIZE_OPTIONS
    /\ artifact = Undef
    /\ json = Undef
    /\ flags = NoFlags
    /\ vopts = DEFAULT_VALIDATOR_OPTIONS
    /\ verr = ""
    /\ dst = NewDeserializer(<< >>, 0)
    /\ InitRegistry

NextDeserialize ==
    \/ CreateEntities
    \/ AddComponents
    \/ ResolveReferences

SpecDeserialize == InitDeserialize /\ [][NextDeserialize]_vars

\* the field values the link pass meets, in the order it meets them: for
\* each record's entity, each field group, each instance and each field,
\* the encoded value the document gives (the class default where it gives
\* none) and the value the live field holds
FieldPairs(data, component) ==
    [i \in 1..Len(component.m) |->
        [data |-> IF HasProp(OwnProps(data), component.m[i].k)
                  THEN Get(data, component.m[i].k)
                  ELSE Get(Map(Registry[component.c].properties), component.m[i].k),
         live |-> component.m[i].v]]

HolderPairs(record, holder) ==
    Flatten([n \in 1..Len(HolderComponents(holder.v)) |->
               FieldPairs(ComponentValues(holder.k, Get(record, holder.k))[n],
                          HolderComponents(holder.v)[n])])

EntityPairs(idx) ==
    Flatten([j \in 1..Len(heap[dst.entities[idx]].comps) |->
               HolderPairs(Records(doc)[idx], heap[dst.entities[idx]].comps[j])])

LinkPairs == Flatten([idx \in 1..Len(dst.entities) |-> EntityPairs(idx)])

\* the live entity materialized for an id of the document
Materialized(id) == getEntity(dst.world, id)

\* live is the encoded value d with every marker replaced: by the entity
\* materialized for its target when the target is a record of the document,
\* by null otherwise
RECURSIVE Linked(_, _)
Linked(d, live) ==
    IF d.t = "map" /\ HasProp(d.m, "$ref")
    THEN IF Get(d, "$ref") \in RecordIds
         THEN /\ live = Materialized(Get(d, "$ref"))
              /\ live.t = "ent"
              /\ heap[live.o].id = Get(d, "$ref")
              /\ \E idx \in 1..Len(dst.entities) : dst.entities[idx] = live.o
         ELSE live = Null
    ELSE IF d.t = "arr"
    THEN /\ live.t = "arr" /\ Len(live.a) = Len(d.a)
         /\ \A i \in 1..Len(d.a) : Linked(d.a[i], live.a[i])
    ELSE IF d.t = "map"
    THEN /\ live.t = "map" /\ Len(live.m) = Len(d.m)
         /\ \A i \in 1..Len(d.m) : live.m[i].k = d.m[i].k /\ Linked(d.m[i].v, live.m[i].v)
    ELSE live.t = d.t /\ live = d

\* the encoded value holds no marker to an absent record
Closed(d) == RefTargets(d) \subseteq RecordIds

\* C2: whatever the order of the records of a document, after deserialize
\* every marker whose target id is in the document has been replaced by the
\* live entity materialized for that id, also when the target's record comes
\* later than the referencing record and when a record refers to itself.
C2_OrderIndependentLinking ==
    pc = "loaded" =>
        LET pairs == LinkPairs
        IN  /\ Len(dst.entities) = Len(Records(doc))
            /\ \A n \in 1..Len(pairs) : Linked(pairs[n].data, pairs[n].live)

\* a forward reference and a self reference, both linked
C2_Witness ==
    /\ pc = "loaded"
    /\ Len(dst.entities) = 2
    /\ Records(doc)[1] = Record(createId(1), <<P("slot", Item(Ref(createId(2))))>>)
    /\ Records(doc)[2] = Record(createId(2), <<P("slot", Item(Ref(createId(2))))>>)
    /\ Get(Get(Map(heap[dst.entities[1]].comps), "slot"), "item") = Ent(dst.entities[2])
    /\ Get(Get(Map(heap[dst.entities[2]].comps), "slot"), "item") = Ent(dst.entities[2])

\* the link pass has run
LinkRan == pc = "loaded" \/ (pc = "failed" /\ dst.error = "Dangling entity reference")

\* the pairs whose encoded value holds a marker to an absent record
DanglingPairs(pairs) == {n \in 1..Len(pairs) : ~Closed(pairs[n].data)}

Least(numbers) == CHOOSE n \in numbers : \A m \in numbers : n <= m

\* every record has its entity in the target world, with its registered
\* field groups attached
Populated ==
    /\ Len(dst.entities) = Len(Records(doc))
    /\ \A idx \in 1..Len(Records(doc)) :
          /\ heap[dst.entities[idx]].id = Get(Records(doc)[idx], "id")
          /\ MapHas(dst.world, Get(Records(doc)[idx], "id"))
          /\ \A j \in 1..Len(ComponentsOf(Records(doc)[idx])) :
                Registered(ComponentsOf(Records(doc)[idx])[j].k)
                    => HasProp(heap[dst.entities[idx]].comps,
                               ComponentsOf(Records(doc)[idx])[j].k)

\* C3: under danglingRefs 'null' and 'warn' the link pass completes and a
\* marker to an absent record leaves null in its place; under 'throw' the
\* link pass raises an error that names the missing id at the first such
\* marker, links nothing after it, and leaves the entities materialized and
\* populated in the target world.
C3_DanglingPolicy ==
    /\ (pc = "failed" /\ dopts.danglingRefs \in {"null", "warn"})
          => dst.error = "Unknown component type"
    /\ (LinkRan /\ dopts.danglingRefs \in {"null", "warn"}) =>
          LET pairs == LinkPairs
          IN  /\ pc = "loaded"
              /\ \A n \in 1..Len(pairs) : Linked(pairs[n].data, pairs[n].live)
    /\ (LinkRan /\ dopts.danglingRefs = "throw") =>
          LET pairs == LinkPairs
              dangling == DanglingPairs(pairs)
          IN  /\ pc = "failed" <=> dangling # {}
              /\ pc = "failed" =>
                    /\ dst.missing \in RefTargets(pairs[Least(dangling)].data) \ RecordIds
                    /\ \A n \in 1..Len(pairs) :
                          IF n < Least(dangling)
                          THEN Linked(pairs[n].data, pairs[n].live)
                          ELSE pairs[n].live = pairs[n].data
                    /\ Populated

\* under 'throw' a dangling marker in the first record stops the link pass
\* before the second record's marker
C3_Witness ==
    /\ pc = "failed" /\ dopts.danglingRefs = "throw"
    /\ dst.missing = AbsentId
    /\ Len(dst.entities) = 2
    /\ Get(Get(Map(heap[dst.entities[2]].comps), "slot"), "item") = Ref(createId(1))
\* C20: once pass 1 has run, the entities deserialize holds for the records
\* are the entities registered in the target world under the records' ids:
\* two records with one id share one entity (the later record fetches the
\* entity made for the earlier one), and the world's entity for an id is the
\* entity returned for it.
C20_MaterializeReuses ==
    pc \in {"populate", "link", "loaded"} =>
        /\ \A i \in 1..Len(dst.entities) :
              getEntity(dst.world, heap[dst.entities[i]].id) = Ent(dst.entities[i])
        /\ \A i \in 1..Len(dst.entities), j \in 1..Len(dst.entities) :
              heap[dst.entities[i]].id = heap[dst.entities[j]].id
                  => dst.entities[i] = dst.entities[j]

\* C26: when deserialize has returned or raised, every entity of the target
\* world is eligible for queries.
C26_EligibilityRestored ==
    pc \in {"loaded", "failed"} =>
        \A i \in 1..Len(dst.world) : heap[dst.world[i].v].qeligible

(***************************************************************************)
(* Decoding with pass 2 taken statement by statement.                      *)
(***************************************************************************)
NextPopulate ==
    \/ CreateEntities
    \/ SuspendRecord
    \/ AttachGroup
    \/ ResumeRecord
    \/ FinishPopulate
    \/ ResolveReferences

SpecPopulate == InitDeserialize /\ [][NextPopulate]_vars

\* does the value hold, at any depth, a live entity (kind "ent") or a
\* reference marker (kind "ref")
RECURSIVE Holds(_, _)
Holds(v, kind) ==
    IF kind = "ent" /\ v.t = "ent" THEN TRUE
    ELSE IF kind = "ref" /\ IsRefMarker(v) THEN TRUE
    ELSE IF v.t = "arr" THEN \E i \in 1..Len(v.a) : Holds(v.a[i], kind)
    ELSE IF v.t \in {"map", "comp"} THEN \E i \in 1..Len(v.m) : Holds(v.m[i].v, kind)
    ELSE FALSE

\* the entity deserialize made for record i
EntityOf(i) == heap[dst.entities[i]]

\* C21: the record whose field groups are being attached has its query
\* eligibility suspended and no membership recomputation yet; every record
\* whose field groups are through is eligible again and has had exactly one
\* recomputation, however many field groups and instances it has; a record
\* not yet reached is untouched.  Populating starts only when every record is
\* materialized, and a reference is linked only when every record is
\* populated; the populated entities hold what _addComponents gives them.
C21_PopulatePass ==
    LET records == EntitiesData(doc)
        n == Len(dst.entities)
    IN  /\ (pass.idx > 1 \/ pc = "attaching") => n = Len(records)
        /\ \A i \in 1..n :
              /\ i < pass.idx => EntityOf(i).qeligible /\ EntityOf(i).candidacies = 1
              /\ (pc = "attaching" /\ i = pass.idx) =>
                     ~EntityOf(i).qeligible /\ EntityOf(i).candidacies = 0
              /\ (i > pass.idx \/ (i = pass.idx /\ pc = "populate")) =>
                     /\ EntityOf(i).comps = << >>
                     /\ EntityOf(i).candidacies = 0
                     /\ EntityOf(i).qeligible
              /\ Holds(Map(EntityOf(i).comps), "ent") =>
                     pass.idx = n + 1 /\ pc \in {"loaded", "failed"}
        /\ pc \in {"link", "loaded"} =>
              /\ pass.idx = Len(records) + 1
              /\ n = Len(records)
        /\ pc = "link" =>
              \A i \in 1..n :
                  EntityOf(i).comps =
                      AddComponentsFrom(dopts, << >>, ComponentsOf(records[i]), 1).comps

\* two records are decoded; one has two field groups attached, one a field
\* group with two instances, and a reference is linked
C21_Witness ==
    /\ pc = "loaded"
    /\ Len(dst.entities) = 2
    /\ \E i \in 1..2 : Len(EntityOf(i).comps) = 2
    /\ \E i \in 1..2 :
          /\ HasProp(EntityOf(i).comps, "bag")
          /\ Len(Get(Map(EntityOf(i).comps), "bag").a) = 2
    /\ \E i \in 1..2 : Holds(Map(EntityOf(i).comps), "ent")

\* the field groups of record i, and those of an unregistered type
GroupsOf(i) == ComponentsOf(EntitiesData(doc)[i])
UnknownGroups(i) == {j \in 1..Len(GroupsOf(i)) : ~Registered(camelString(GroupsOf(i)[j].k))}

\* the field groups of the document, as <<record, group>>, and those pass 2
\* has been through
AllGroups ==
    UNION {{<<i, j>> : j \in 1..Len(GroupsOf(i))} : i \in 1..Len(EntitiesData(doc))}

Passed ==
    {p \in AllGroups :
        /\ pc # "materialize"
        /\ \/ p[1] < pass.idx
           \/ p[1] = pass.idx /\ p[2] < pass.j /\ pc \in {"attaching", "failed"}}

\* C22: under strictValidation the first field group of an unregistered
\* type ends deserialize with the error "Unknown component type" naming that
\* field group, and no field group of an unregistered type is ever passed
\* over.  Without strictValidation no such error is raised: the field groups
\* skipped are exactly those of an unregistered type, every registered field
\* group of every record is attached and every record is decoded.
C22_UnknownFieldGroup ==
    LET unknown == {p \in Passed : p[2] \in UnknownGroups(p[1])}
        raised == pc = "failed" /\ dst.error = "Unknown component type"
    IN  /\ dopts.strictValidation =>
              /\ pass.skipped = << >>
              /\ raised <=> unknown # {}
              /\ raised =>
                    /\ unknown = {<<pass.idx, pass.j - 1>>}
                    /\ dst.missing = Str(KeyChars(GroupsOf(pass.idx)[pass.j - 1].k))
        /\ ~dopts.strictValidation =>
              /\ ~raised
              /\ {pass.skipped[k] : k \in 1..Len(pass.skipped)} = unknown
              /\ \A p \in Passed :
                    HasProp(EntityOf(p[1]).comps, GroupsOf(p[1])[p[2]].k)
                        <=> p[2] \notin UnknownGroups(p[1])
              /\ pc \in {"link", "loaded"} =>
                    /\ Len(dst.entities) = Len(EntitiesData(doc))
                    /\ Passed = AllGroups

\* without strictValidation a field group of an unregistered type was
\* skipped, the registered field group of its record is attached and the
\* other record is decoded with its field group
C22_Witness ==
    /\ pc = "loaded"
    /\ ~dopts.strictValidation
    /\ Len(dst.entities) = 2
    /\ \E i \in 1..2 :
          /\ UnknownGroups(i) # {}
          /\ HasProp(EntityOf(i).comps, "slot")
          /\ UnknownGroups(3 - i) = {}
          /\ EntityOf(3 - i).comps # << >>

(***************************************************************************)
(* Validation followed by decoding of the same document: the documents of  *)
(* SpecDeserialize are validated with reference checking on, and those     *)
(* accepted are decoded under every dangling-reference policy.             *)
(***************************************************************************)
AgreeValidatorOptions ==
    {[DEFAULT_VALIDATOR_OPTIONS EXCEPT !.validateComponents = c] : c \in BOOLEAN}

InitAgree ==
    /\ pc = "document"
    /\ doc \in DeserializerDocs
    /\ vopts \in AgreeValidatorOptions
    /\ dopts \in DeserializerOptions
    /\ heap = << >>
    /\ world = << >>
    /\ nextId = 0
    /\ sopts = DEFAULT_SERIALIZE_OPTIONS
    /\ artifact = Undef
    /\ json = Undef
    /\ flags = NoFlags
    /\ verr = ""
    /\ dst = NewDeserializer(<< >>, 0)
    /\ InitRegistry

NextAgree ==
    \/ ValidateArtifact
    \/ CreateEntities
    \/ AddComponents
    \/ ResolveReferences

SpecAgree == InitAgree /\ [][NextAgree]_vars

\* validate has accepted the document
Accepted == pc # "document" /\ verr = ""

\* the field groups of the entities deserialize returns
ReturnedGroups ==
    Flatten([i \in 1..Len(dst.entities) |->
               [j \in 1..Len(heap[dst.entities[i]].comps) |->
                   heap[dst.entities[i]].comps[j].v]])

\* C30: on a document validate has accepted with reference checking on, the
\* link pass finds no marker whose target the decoder has no entity for, so
\* _handleDanglingReference is never called: deserialize raises no
\* dangling-reference error under any policy, and when it has returned no
\* field of a returned entity holds a $ref marker.
C30_ValidatorDecoderAgree ==
    (Accepted /\ vopts.validateReferences) =>
        /\ pc = "link" =>
              \A n \in 1..Len(LinkPairs) :
                  DanglingIds(dst.entityMap, LinkPairs[n].live) = << >>
        /\ pc = "failed" => dst.error # "Dangling entity reference"
        /\ pc = "loaded" =>
              \A g \in 1..Len(ReturnedGroups) : ~Holds(ReturnedGroups[g], "ref")

\* a document whose second record refers to the first from inside an array
\* was accepted and decoded under 'throw': the field holds the live entity
C30_Witness ==
    /\ Accepted /\ vopts.validateReferences
    /\ pc = "loaded"
    /\ dopts.danglingRefs = "throw"
    /\ Len(dst.entities) = 2
    /\ \E g \in 1..Len(ReturnedGroups) : Holds(ReturnedGroups[g], "ent")
    /\ \E i \in 1..Len(Records(doc)) : Holds(Records(doc)[i], "ref")

(***************************************************************************)
(* Saving a graph of references: a world of up to MaxGraphEntities         *)
(* entities, some of them not serializable, whose components refer to      *)
(* entities, is saved under the options that select roots and expansion.   *)
(***************************************************************************)
GraphClasses == {"slot", "bag"}

SerializeOptions(h) ==
    {[DEFAULT_SERIALIZE_OPTIONS EXCEPT !.entities = roots, !.excludeTransient = transient,
                                       !.excludeComponents = excluded,
                                       !.resolveReferences = expand[1],
                                       !.maxDepth = expand[2]] :
        roots \in {Null} \cup {Arr(<<o>>) : o \in 1..Len(h)},
        transient \in BOOLEAN,
        excluded \in {{}, {"bag"}},
        expand \in {<<FALSE, DEFAULT_SERIALIZE_OPTIONS.maxDepth>>}
                   \cup {<<TRUE, d>> : d \in 0..MaxDepthOption}}

NextSerialize ==
    \/ CreateEntity(MaxGraphEntities)
    \/ \E o \in 1..Len(heap) : SetTransient(o)
    \/ \E o \in 1..Len(heap), type \in GraphClasses, target \in 1..Len(heap) :
          AddComponent(MaxGraphComponents, o, type, Item(Ent(target)))
    \/ \E options \in SerializeOptions(heap) : CreateArtifact(options)

SpecSerialize == Init /\ [][NextSerialize]_vars

\* the ids of the records of the saved document
ArtifactIds ==
    {Get(Get(artifact, "entities").a[i], "id") :
        i \in {j \in 1..Len(Get(artifact, "entities").a) :
                 Get(artifact, "entities").a[j].t = "map"}}

\* the entities the options select as roots
RootSet ==
    {o \in (IF sopts.entities = Null THEN {world[i].v : i \in 1..Len(world)}
            ELSE {sopts.entities.a[i] : i \in 1..Len(sopts.entities.a)}) :
        sopts.excludeTransient => heap[o].serializable}

\* the entities an entity refers to in the field groups the options retain
RefersTo(o) ==
    UNION {{r.o : r \in {x \in UNION {{HolderComponents(heap[o].comps[j].v)[n].m[i].v :
                                          i \in 1..Len(HolderComponents(heap[o].comps[j].v)[n].m)} :
                                       n \in 1..Len(HolderComponents(heap[o].comps[j].v))} :
                          x.t = "ent"}} :
           j \in {k \in 1..Len(heap[o].comps) :
                     /\ heap[o].comps[k].k \notin sopts.excludeComponents
                     /\ sopts.onlyComponents = Null
                        \/ \E i \in 1..Len(sopts.onlyComponents.a) :
                              sopts.onlyComponents.a[i] = heap[o].comps[k].k}}

\* the entities within n reference hops of the roots
RECURSIVE Within(_)
Within(n) ==
    IF n = 0 THEN RootSet
    ELSE Within(n - 1) \cup UNION {RefersTo(o) : o \in Within(n - 1)}

\* C4: the ids of the records of the document serialize returns are the ids
\* of the selected roots when resolveReferences is off, and the ids of the
\* roots and of the entities within maxDepth reference hops of a root,
\* through the retained field groups, when it is on.
C4_BoundedExpansion ==
    pc = "artifact" =>
        ArtifactIds = {heap[o].id : o \in (IF sopts.resolveReferences
                                           THEN Within(sopts.maxDepth) ELSE RootSet)}

\* C27: every element of the entities array of the document serialize
\* returns is a record that carries the id of an entity of the world, no two
\* elements carry the same id, and the validator's entity check accepts the
\* document.
C27_WellFormedRecords ==
    pc = "artifact" =>
        LET records == Get(artifact, "entities").a
        IN  /\ \A i \in 1..Len(records) :
                  /\ records[i].t = "map"
                  /\ \E j \in 1..Len(world) : heap[world[j].v].id = Get(records[i], "id")
            /\ \A i \in 1..Len(records), j \in 1..Len(records) :
                  (records[i].t = "map" /\ records[j].t = "map"
                   /\ Get(records[i], "id") = Get(records[j], "id")) => i = j
            /\ ValidateEntities(artifact) = ""

(***************************************************************************)
(* Saving worlds with reference cycles: SpecExpand builds a world of up to *)
(* MaxLinked entities joined by up to MaxLinked references (to themselves, *)
(* to each other) and saves it step by step, with the expansion off and on *)
(* for every maxDepth up to MaxDepthOption and the default.  serialize is  *)
(* synchronous: once called it runs on, which is the fairness of           *)
(* SpecExpand.                                                             *)
(***************************************************************************)
ExpandOptions(h) ==
    {[DEFAULT_SERIALIZE_OPTIONS EXCEPT !.entities = roots,
                                       !.resolveReferences = expand[1],
                                       !.maxDepth = expand[2]] :
        roots \in {Null} \cup {Arr(<<o>>) : o \in 1..Len(h)},
        expand \in {<<FALSE, DEFAULT_SERIALIZE_OPTIONS.maxDepth>>,
                    <<TRUE, DEFAULT_SERIALIZE_OPTIONS.maxDepth>>}
                   \cup {<<TRUE, d>> : d \in 0..MaxDepthOption}}

SerializeStep ==
    \/ TestLevel
    \/ VisitEntity
    \/ AdvanceLevel
    \/ FinishSerialize

NextExpand ==
    \/ CreateEntity(MaxLinked)
    \/ \E o \in 1..Len(heap), target \in 1..Len(heap) :
          AddComponent(MaxLinked, o, "slot", Item(Ent(target)))
    \/ \E options \in ExpandOptions(heap) : BeginSerialize(options)
    \/ SerializeStep

SpecExpand == Init /\ [][NextExpand]_vars /\ WF_vars(SerializeStep)

\* serialize has been called and has not returned; it has returned
Serializing == pc \in {"expanding", "visiting", "collected"}
Serialized == pc \in {"artifact", "TypeError"}

\* the expansion has taken no entity twice and no root, and has gone no
\* deeper than maxDepth; the document returned is made of the roots and of
\* what the expansion took
VisitedOnce ==
    (Serializing \/ Serialized) =>
        LET roots == CollectEntities(heap, world, sopts)
            taken == bfs.toInclude
        IN  /\ \A i \in 1..Len(taken), j \in 1..Len(taken) : taken[i] = taken[j] => i = j
            /\ \A i \in 1..Len(taken), j \in 1..Len(roots) : taken[i] # roots[j]
            /\ \A i \in 1..Len(taken) : heap[taken[i]].id \in bfs.visited
            /\ bfs.depth <= sopts.maxDepth
            /\ Serialized =>
                  /\ serialize(heap, world, sopts).included = roots \o taken
                  /\ serialize(heap, world, sopts).artifact = artifact

\* C17: serialize, once called, returns: on every world, reference cycles
\* (an entity referring to itself, two entities referring to each other)
\* included, with resolveReferences off and on and every maxDepth from 0;
\* all along, the expansion has taken each entity at most once.
C17_SerializeTerminates == [](VisitedOnce) /\ (Serializing ~> Serialized)

\* a world of two entities that refer to each other has been saved from one
\* of them with the expansion on, which ran out of entities before maxDepth
C17_Witness ==
    /\ pc = "artifact"
    /\ Len(heap) = 2
    /\ Get(Get(Map(heap[1].comps), "slot"), "item") = Ent(2)
    /\ Get(Get(Map(heap[2].comps), "slot"), "item") = Ent(1)
    /\ sopts.resolveReferences
    /\ sopts.entities = Arr(<<1>>)
    /\ bfs.toInclude = <<2>>
    /\ bfs.depth < sopts.maxDepth

\* how often _serializeEntity, and with it the beforeSerialize hook, has been
\* called with entity o
Invocations(o) == Cardinality({i \in 1..Len(bfs.hooked) : bfs.hooked[i] = o})

\* the entities that have a record in the document
Included == {o \in 1..Len(heap) :
                \E i \in 1..Len(Get(artifact, "entities").a) :
                    /\ Get(artifact, "entities").a[i].t = "map"
                    /\ Get(Get(artifact, "entities").a[i], "id") = heap[o].id}

\* C28: when serialize has returned, the beforeSerialize hook has been
\* invoked exactly once for each entity that has a record in the document and
\* not at all for any other entity.
C28_HookOncePerIncluded ==
    pc = "artifact" =>
        \A o \in 1..Len(heap) : Invocations(o) = IF o \in Included THEN 1 ELSE 0

(***************************************************************************)
(* The registry's path search: SpecRegistry registers up to MaxEdges edges *)
(* among four versions, in every order.  The edges join distinct versions: *)
(* an edge from a version to itself is never followed by the search, its   *)
(* target being visited already; SpecMigrate registers such edges.         *)
(***************************************************************************)
RegistryVersions == LEGACY_SCHEMA_VERSION..(CURRENT_SCHEMA_VERSION + 2)

\* (artifact) => artifact
Identity == Fn("identity", "")

InitMigrations ==
    /\ pc = "registry"
    /\ heap = << >>
    /\ world = << >>
    /\ nextId = 0
    /\ sopts = DEFAULT_SERIALIZE_OPTIONS
    /\ artifact = Undef
    /\ json = Undef
    /\ doc = Undef
    /\ flags = NoFlags
    /\ vopts = DEFAULT_VALIDATOR_OPTIONS
    /\ verr = ""
    /\ dopts = DEFAULT_DESERIALIZE_OPTIONS
    /\ dst = NewDeserializer(<< >>, 0)
    /\ InitRegistry

NextRegistry ==
    \E fromVersion \in RegistryVersions :
        \E toVersion \in RegistryVersions \ {fromVersion} :
            Register(MaxEdges, fromVersion, toVersion, Identity)

SpecRegistry == InitMigrations /\ [][NextRegistry]_vars

\* the registered edges, as a set of { from, to }
EdgeSet(reg) == LET all == getMigrations(reg) IN {all[i] : i \in 1..Len(all)}

\* the versions one edge away from a version of the set
Successors(edges, versions) == {e.to : e \in {x \in edges : x.from \in versions}}

\* the versions within n edges of the set
RECURSIVE WithinEdges(_, _, _)
WithinEdges(edges, versions, n) ==
    IF n = 0 THEN versions
    ELSE WithinEdges(edges, versions \cup Successors(edges, versions), n - 1)

\* a directed path of one edge or more leads from one version to the other
PathExists(reg, fromVersion, toVersion) ==
    LET edges == EdgeSet(reg)
    IN  toVersion \in Successors(edges, WithinEdges(edges, {fromVersion}, Cardinality(edges)))

\* C11: for every pair of versions, hasMigration(from, to) is true exactly
\* when a directed path of registered edges leads from `from` to `to`.
C11_HasMigrationIffPath ==
    \A fromVersion \in RegistryVersions, toVersion \in RegistryVersions :
        hasMigration(migrations, fromVersion, toVersion)
            <=> PathExists(migrations, fromVersion, toVersion)


\* the least number of edges on a path from one version to the other
Distance(reg, fromVersion, toVersion) ==
    LET edges == EdgeSet(reg)
        Reached(n) == Successors(edges, WithinEdges(edges, {fromVersion}, n - 1))
    IN  CHOOSE n \in 1..Cardinality(edges) :
            /\ toVersion \in Reached(n)
            /\ \A m \in 1..(n - 1) : toVersion \notin Reached(m)

\* the steps lead from one version to the other along registered edges
IsPath(reg, path, fromVersion, toVersion) ==
    /\ Len(path) > 0
    /\ path[1].from = fromVersion
    /\ path[Len(path)].to = toVersion
    /\ LET edges == EdgeSet(reg) IN \A i \in 1..Len(path) : path[i] \in edges
    /\ \A i \in 1..(Len(path) - 1) : path[i].to = path[i + 1].from

\* the paths of least length from one version to the other
ShortestPaths(reg, fromVersion, toVersion) ==
    LET edges == EdgeSet(reg)
    IN  {q \in [1..Distance(reg, fromVersion, toVersion) -> edges] :
            IsPath(reg, q, fromVersion, toVersion)}

\* the place of an edge among the edges registered for its source version
Rank(reg, e) ==
    LET outgoing == MapGet(reg, e.from)
    IN  CHOOSE j \in 1..Len(outgoing) : outgoing[j].k = e.to

\* p is q, or takes the earlier registered edge where the two first part
EarlierRegistered(reg, p, q) ==
    \/ p = q
    \/ LET i == CHOOSE k \in 1..Len(p) : p[k] # q[k] /\ \A m \in 1..(k - 1) : p[m] = q[m]
       IN  Rank(reg, p[i]) < Rank(reg, q[i])

\* C19: for every pair of distinct versions joined by a path, the path the
\* search returns (the one migrate applies) is a path of least length, and
\* among the paths of least length it is the one that, wherever two of them
\* part, takes the edge registered earlier for that version.
C19_ShortestPath ==
    \A fromVersion \in RegistryVersions, toVersion \in RegistryVersions :
        (fromVersion # toVersion /\ PathExists(migrations, fromVersion, toVersion)) =>
            LET found == findMigrationPath(migrations, fromVersion, toVersion)
                shortest == ShortestPaths(migrations, fromVersion, toVersion)
            IN  /\ found \in shortest
                /\ \A q \in shortest : EarlierRegistered(migrations, found, q)

\* two paths of least length join a pair of versions
C19_Witness ==
    \E fromVersion \in RegistryVersions, toVersion \in RegistryVersions :
        /\ fromVersion # toVersion
        /\ PathExists(migrations, fromVersion, toVersion)
        /\ Cardinality(ShortestPaths(migrations, fromVersion, toVersion)) > 1

(***************************************************************************)
(* Migrating documents: SpecMigrate registers up to MaxTransforms edges    *)
(* among three versions (edges from a version to itself and cycles         *)
(* included), with the transforms of Migrations.spec.js and with something *)
(* that is no function, and migrates documents with and without meta.      *)
(***************************************************************************)
MigrateVersions == LEGACY_SCHEMA_VERSION..(CURRENT_SCHEMA_VERSION + 1)

\* the property a spreading transform adds: 'step1' on the way to version 1
StepMark(version) == <<"step0", "step1", "step2", "step3">>[version + 1]

Transforms(toVersion) ==
    {Identity, Fn("spread", StepMark(toVersion)), Fn("meta", "")}

\* registry.register(0, 1, 'not a function')
NotAFunction == Str(<<110, 111, 116>>)

\* { entities: [] } and { entities: [], meta: { schemaVersion } }, as a store
\* and the document's place in it
MigrateDocs ==
    {[store |-> << <<P("entities", Arr(<< >>))>> >>, artifact |-> 1]}
    \cup {[store |-> << <<P("schemaVersion", Num(v))>>,
                        <<P("entities", Arr(<< >>)), P("meta", Obj(1))>> >>,
           artifact |-> 2] : v \in {LEGACY_SCHEMA_VERSION, CURRENT_SCHEMA_VERSION}}

NextMigrate ==
    \/ \E fromVersion \in MigrateVersions, toVersion \in MigrateVersions :
          \E migrationFn \in Transforms(toVersion) \cup {NotAFunction} :
              Register(MaxTransforms, fromVersion, toVersion, migrationFn)
    \/ \E d \in MigrateDocs, targetVersion \in MigrateVersions :
          Migrate(d.store, d.artifact, targetVersion)

SpecMigrate == InitMigrations /\ [][NextMigrate]_vars

\* the call just made
Migrated == pc = "migrated" /\ mout.op = "migrate"
MigrateSource == SourceVersion(mout.input, mout.artifact)

\* the object has a meta block
HasMeta(store, o) == Field(store, o, "meta").t = "obj"

\* the marks among the own properties of an object, in property order
MarksOf(store, o) ==
    LET keys == [i \in 1..Len(store[o]) |-> store[o][i].k]
    IN  SelectSeq(keys, LAMBDA k : k \in {StepMark(v) : v \in MigrateVersions})

\* the marks the spreading transforms of a path add, in path order
RECURSIVE PathMarks(_, _)
PathMarks(reg, path) ==
    IF path = << >> THEN << >>
    ELSE LET migrationFn == MapGet(MapGet(reg, path[1].from), path[1].to)
         IN  (IF migrationFn.kind = "spread" THEN <<migrationFn.mark>> ELSE << >>)
             \o PathMarks(reg, Tail(path))

\* C12: when a path of registered edges leads from the document's version to
\* the (different) target, migrate succeeds and has invoked the transforms of
\* one such path, each once, in path order, the first on the document given
\* and each later one on the previous one's output; it returns the last
\* output, which carries the marks of the path in order; if the returned
\* document has a meta block its schemaVersion is the target, and it has one
\* only if the document given had one or a transform of the path made one.
C12_MigrateAppliesPath ==
    (Migrated /\ MigrateSource # mout.target
        /\ PathExists(mout.before, MigrateSource, mout.target)) =>
        LET calls == mout.calls
            path == [i \in 1..Len(calls) |-> Step(calls[i].from, calls[i].to)]
        IN  /\ mout.error = ""
            /\ IsPath(mout.before, path, MigrateSource, mout.target)
            /\ \A i \in 1..Len(calls) :
                  /\ calls[i].fn = MapGet(MapGet(mout.before, calls[i].from), calls[i].to)
                  /\ calls[i].arg = IF i = 1 THEN mout.artifact ELSE calls[i - 1].out
                  /\ \A j \in 1..Len(calls) : path[j] = path[i] => j = i
            /\ mout.result = calls[Len(calls)].out
            /\ MarksOf(mout.store, mout.result) = PathMarks(mout.before, path)
            /\ HasMeta(mout.store, mout.result) =>
                  SourceVersion(mout.store, mout.result) = mout.target
            /\ HasMeta(mout.store, mout.result) <=>
                  \/ HasMeta(mout.input, mout.artifact)
                  \/ \E i \in 1..Len(calls) : calls[i].fn.kind = "meta"

\* a document at version 0 has been taken to version 2 by two transforms
C12_Witness ==
    /\ Migrated
    /\ mout.error = ""
    /\ Len(mout.calls) = 2
    /\ mout.calls[1].fn.kind = "spread"
    /\ mout.calls[2].fn.kind = "spread"
    /\ mout.target = 2

\* C13: migrate on a document whose version (0 when absent) is the target
\* returns the very object it was given, invokes no transform and changes
\* neither the store nor the registry, whatever edges are registered.
C13_SameVersionIsIdentity ==
    (Migrated /\ MigrateSource = mout.target) =>
        /\ mout.error = ""
        /\ mout.result = mout.artifact
        /\ mout.calls = << >>
        /\ mout.store = mout.input
        /\ migrations = mout.before

\* a document migrated to its own version while that version has an edge to
\* itself and lies on a cycle through another version
C13_Witness ==
    /\ Migrated
    /\ MigrateSource = mout.target
    /\ \/ Step(mout.target, mout.target) \in EdgeSet(mout.before)
       \/ \E v \in MigrateVersions \ {mout.target} :
             {Step(mout.target, v), Step(v, mout.target)} \subseteq EdgeSet(mout.before)

\* C14: when no path of registered edges leads from the document's version
\* to the (different) target, migrate throws the no-path error naming the
\* source and the target version, invokes no transform and leaves the
\* document and the registry unchanged.
C14_NoPathThrows ==
    (Migrated /\ MigrateSource # mout.target
        /\ ~PathExists(mout.before, MigrateSource, mout.target)) =>
        /\ mout.error = "No migration path from version ${sourceVersion} to ${targetVersion}"
        /\ mout.named = <<MigrateSource, mout.target>>
        /\ mout.calls = << >>
        /\ mout.store = mout.input
        /\ migrations = mout.before

\* a migration refused although edges are registered, one of them leaving
\* the document's version
C14_Witness ==
    /\ Migrated
    /\ mout.error # ""
    /\ \E e \in EdgeSet(mout.before) : e.from = MigrateSource /\ e.to # MigrateSource

\* C15: register with something that is no function throws and leaves the
\* registry as it was: getMigrations and every hasMigration answer are the
\* same; register with a function leaves the edge registered with it.
C15_RegisterGuard ==
    (pc = "registry" /\ mout.op = "register") =>
        IF Callable(mout.fn)
        THEN /\ mout.error = ""
             /\ Step(mout.from, mout.to) \in EdgeSet(migrations)
             /\ MapGet(MapGet(migrations, mout.from), mout.to) = mout.fn
        ELSE /\ mout.error = "Migration must be a function"
             /\ getMigrations(migrations) = getMigrations(mout.before)
             /\ \A fromVersion \in MigrateVersions, toVersion \in MigrateVersions :
                   hasMigration(migrations, fromVersion, toVersion)
                       <=> hasMigration(mout.before, fromVersion, toVersion)
             /\ migrations = mout.before

\* a register call refused on a registry that holds an edge, for a pair of
\* versions not yet joined
C15_Witness ==
    /\ pc = "registry"
    /\ mout.op = "register"
    /\ ~Callable(mout.fn)
    /\ mout.before # << >>
    /\ ~hasMigration(mout.before, mout.from, mout.to)
    /\ mout.from # mout.to

\* C25: when migrate has returned or raised, every object that existed
\* before the call (the document handed in and its meta block among them)
\* has the properties it had before the call; the transforms modify nothing
\* they are given.
C25_MigrateLeavesInput ==
    Migrated =>
        /\ Len(mout.store) >= Len(mout.input)
        /\ \A o \in 1..Len(mout.input) : mout.store[o] = mout.input[o]

(***************************************************************************)
(* Loading: SpecLoad registers up to MaxMigrations edges on the engine and *)
(* loads a document with a meta block at version 0, 1 or 2, valid or not,  *)
(* into an empty world, with validate and autoMigrate on and off.          *)
(***************************************************************************)
LoadRecords ==
    {<<Record(createId(1), <<P("slot", Item(Num(7)))>>)>>,
     <<Record(createId(1), <<P("ghost", Map(<< >>))>>)>>}

LoadDocs ==
    {Map(<<P("entities", Arr(records)),
           P("meta", Map(<<P("schemaVersion", Num(v))>>))>>) :
        records \in LoadRecords, v \in MigrateVersions}

LoadOptions == [validate : BOOLEAN, autoMigrate : BOOLEAN]

NextLoad ==
    \/ \E fromVersion \in MigrateVersions, toVersion \in MigrateVersions :
          \E migrationFn \in Transforms(toVersion) :
              Register(MaxMigrations, fromVersion, toVersion, migrationFn)
    \/ \E d \in LoadDocs, options \in LoadOptions : ReceiveArtifact(d, options)
    \/ MigrateArtifact
    \/ ValidateArtifact
    \/ CreateEntities
    \/ AddComponents
    \/ ResolveReferences

SpecLoad == InitMigrations /\ [][NextLoad]_vars

\* the version of the document loadArtifact was given
LoadVersion == SourceVersion(ToStore(artifact).store, ToStore(artifact).artifact)

\* loadArtifact has to migrate the document it was given
MustMigrate == lopts.autoMigrate /\ LoadVersion # CURRENT_SCHEMA_VERSION

\* no entity has been created in the target world
NothingCreated == heap = << >> /\ dst.world = << >> /\ dst.entities = << >>

\* C16: a load of a document with a meta block runs in this order.  Before
\* the migration step nothing has run.  Once that step is over, the
\* registry's migrate has been called on the document given exactly when
\* autoMigrate is on and its version is not the current one, and the
\* document the load goes on with is what migrate returned; otherwise no
\* transform was invoked and the document is the one given.  Up to and
\* including the validation (or a migration error) no entity has been
\* created; a rejected load reports what validate says of the migrated
\* document; entities are created only for a document that validate accepts
\* in its migrated form, unless validate is off.
C16_LoadOrdering ==
    /\ pc = "received" => (mout = NoCall /\ verr = "" /\ NothingCreated)
    /\ pc \in {"unmigrated", "document", "invalid", "materialize", "populate", "link",
                "loaded", "failed"} =>
          IF MustMigrate
          THEN /\ mout.op = "migrate"
               /\ mout.target = CURRENT_SCHEMA_VERSION
               /\ FromStore(mout.input, mout.artifact) = artifact
               /\ pc = "unmigrated" <=> mout.error # ""
               /\ mout.error = "" =>
                     (mout.calls # << >> /\ doc = FromStore(mout.store, mout.result))
          ELSE mout = NoCall /\ doc = artifact /\ pc # "unmigrated"
    /\ pc \in {"unmigrated", "document", "invalid"} => NothingCreated
    /\ pc \in {"document", "invalid"} => lopts.validate
    /\ pc = "invalid" => (verr # "" /\ verr = validate(vopts, doc))
    /\ (pc \in {"materialize", "populate", "link", "loaded", "failed"} /\ lopts.validate) =>
          (verr = "" /\ validate(vopts, doc) = "")

\* a document of a newer version has been migrated down, validated in its
\* migrated form and loaded
C16_Witness ==
    /\ pc = "loaded"
    /\ lopts.validate
    /\ MustMigrate
    /\ LoadVersion > CURRENT_SCHEMA_VERSION
    /\ validate(vopts, artifact) # ""
    /\ heap # << >>

(***************************************************************************)
(* Loading into a world that is in use: the target world holds an entity   *)
(* with a field group, under the id the documents' record carries.         *)
(***************************************************************************)
\* the entity the target world holds, and the world's _entities
LiveHeap ==
    <<[NewEntity("loaded", createId(1), TRUE) EXCEPT
          !.comps = EntityAdd(<< >>, "slot", Item(Num(3)))]>>

LiveEntities == <<P(createId(1), 1)>>

InitLoadInto ==
    /\ pc = "registry"
    /\ heap = LiveHeap
    /\ world = << >>
    /\ nextId = 0
    /\ sopts = DEFAULT_SERIALIZE_OPTIONS
    /\ artifact = Undef
    /\ json = Undef
    /\ doc = Undef
    /\ flags = NoFlags
    /\ vopts = DEFAULT_VALIDATOR_OPTIONS
    /\ verr = ""
    /\ dopts = DEFAULT_DESERIALIZE_OPTIONS
    /\ dst = NewDeserializer(LiveEntities, 1)
    /\ InitRegistry

SpecLoadInto == InitLoadInto /\ [][NextLoad]_vars

\* the load has raised in its migration or in its validation
LoadRaisedEarly == pc \in {"unmigrated", "invalid"}

\* C29: when the load of a document with a meta block has raised in the
\* migration (no path) or in the validation, the target world holds the
\* entities it held, each with the field groups it had, under the same
\* ids, and the deserializer has made nothing.
C29_FailedLoadLeavesWorld ==
    LoadRaisedEarly =>
        /\ heap = LiveHeap
        /\ dst = NewDeserializer(LiveEntities, 1)
        /\ (pc = "unmigrated") = (mout.error # "")
        /\ (pc = "invalid") = (verr # "")

\* the document's record carries the id of the world's entity and the
\* validator has refused the document
C29_Witness ==
    /\ pc = "invalid"
    /\ verr # ""
    /\ \E i \in 1..Len(EntitiesData(doc)) :
          MapHas(dst.world, Get(EntitiesData(doc)[i], "id"))
    /\ heap = LiveHeap

(***************************************************************************)
(* The value codec on its own: a value tree is taken through toJSON and    *)
(* fromJSON.                                                               *)
(***************************************************************************)
\* the leaves: arbitrary-precision integers (zero, negative, positive), a
\* timestamp, and values of the other kinds
CodecLeaves ==
    {Big(0), Big(-7), Big(12), Date(EpochISO), Num(1), Str(<<65, 97>>), Null, Bool(TRUE)}

\* leaves, and leaves held in arrays and maps
CodecHolders(values) ==
    values \cup {Arr(<<v>>) : v \in values} \cup {Map(<<P("item", v)>>) : v \in values}

\* value trees of up to two levels of nesting, and arrays of two leaves
CodecValues ==
    CodecHolders(CodecHolders(CodecLeaves))
        \cup {Arr(<<v, w>>) : v \in CodecLeaves, w \in CodecLeaves}

InitCodec ==
    /\ pc = "artifact"
    /\ artifact \in CodecValues
    /\ heap = << >>
    /\ world = << >>
    /\ nextId = 0
    /\ sopts = DEFAULT_SERIALIZE_OPTIONS
    /\ json = Undef
    /\ doc = Undef
    /\ flags = NoFlags
    /\ vopts = DEFAULT_VALIDATOR_OPTIONS
    /\ verr = ""
    /\ dopts = DEFAULT_DESERIALIZE_OPTIONS
    /\ dst = NewDeserializer(<< >>, 0)
    /\ InitRegistry

NextCodec ==
    \/ ToJSON
    \/ FromJSON

SpecCodec == InitCodec /\ [][NextCodec]_vars

\* e is v with every arbitrary-precision integer replaced by its $bigint
\* marker and every timestamp by its $date marker, at any depth
RECURSIVE Marked(_, _)
Marked(v, e) ==
    CASE v.t = "big" -> e = Map(<<P("$bigint", Str(DecChars(v.i)))>>)
      [] v.t = "date" -> e = Map(<<P("$date", Str(v.d))>>)
      [] v.t = "arr" ->
           /\ e.t = "arr"
           /\ Len(e.a) = Len(v.a)
           /\ \A i \in 1..Len(v.a) : Marked(v.a[i], e.a[i])
      [] v.t = "map" ->
           /\ e.t = "map"
           /\ Len(e.m) = Len(v.m)
           /\ \A i \in 1..Len(v.m) : e.m[i].k = v.m[i].k /\ Marked(v.m[i].v, e.m[i].v)
      [] OTHER -> e = v

\* C23: the JSON value toJSON produces for a value tree carries a $bigint
\* marker for every arbitrary-precision integer and a $date marker for every
\* timestamp of the tree, at any depth, everything else as it was; fromJSON
\* gives back a tree equal to the original.
C23_CodecRoundTrip ==
    /\ pc \in {"json", "document"} => Marked(artifact, json)
    /\ pc = "document" => doc = artifact

(***************************************************************************)
(* The checksum on its own: calculateChecksum runs over a text of up to    *)
(* MaxText characters, then verifyChecksum is asked about the text.        *)
(***************************************************************************)
\* the characters of the texts: 'A', 'B', 'a' and the largest code unit
HashChars == {65, 66, 97, 65535}

RECURSIVE TextsOf(_)
TextsOf(n) ==
    IF n = 0 THEN {<< >>}
    ELSE LET shorter == TextsOf(n - 1)
         IN  shorter \cup {Append(cs, c) : cs \in shorter, c \in HashChars}

Reverse(cs) == [i \in 1..Len(cs) |-> cs[Len(cs) + 1 - i]]

InitHash ==
    /\ pc = "hashing"
    /\ heap = << >>
    /\ world = << >>
    /\ nextId = 0
    /\ sopts = DEFAULT_SERIALIZE_OPTIONS
    /\ artifact = Undef
    /\ json = Undef
    /\ doc = Undef
    /\ flags = NoFlags
    /\ vopts = DEFAULT_VALIDATOR_OPTIONS
    /\ verr = ""
    /\ dopts = DEFAULT_DESERIALIZE_OPTIONS
    /\ dst = NewDeserializer(<< >>, 0)
    /\ migrations = << >>
    /\ mout = NoCall
    /\ lopts = DEFAULT_LOAD_OPTIONS
    /\ bfs = NoExpansion
    /\ pass = NoPass
    /\ \E data \in TextsOf(MaxText) : sum = [NoSum EXCEPT !.data = data]

\* verifyChecksum is asked about the checksum of the text, about that of the
\* text read backwards, and about a checksum without digits
NextHash ==
    \/ HashChar
    \/ ReturnChecksum
    \/ \E expected \in {calculateChecksum(sum.data), calculateChecksum(Reverse(sum.data)),
                         Str(SimpleTag)} :
          VerifyChecksum(expected)

SpecHash == InitHash /\ [][NextHash]_vars

\* 31 * h + c reduced to a signed 32-bit integer, for a 32-bit h and a code
\* unit c: the product is taken on the two 16-bit halves of h
Times31Plus(h, c) ==
    LET lo == 31 * Lo(h) + c
        hi == (31 * Hi(h) + lo \div Half) % Half
    IN  IF hi >= 32768 THEN (hi - Half) * Half + (lo % Half) ELSE hi * Half + (lo % Half)

\* the value of a hexadecimal digit, -1 for any other character
DigitValue(d) ==
    IF d \in 48..57 THEN d - 48 ELSE IF d \in 97..102 THEN d - 87 ELSE 0 - 1

\* the number a text of up to four hexadecimal digits denotes
RECURSIVE HexValue(_)
HexValue(cs) ==
    IF cs = << >> THEN 0 ELSE 16 * HexValue(SubSeq(cs, 1, Len(cs) - 1)) + DigitValue(cs[Len(cs)])

\* text is the base-16 rendering of the 32-bit integer h: an optional '-',
\* then one to eight digits 0-9 a-f without a leading zero, which denote
\* the magnitude of h
RendersHex(text, h) ==
    LET digits == IF text # << >> /\ text[1] = 45 THEN Tail(text) ELSE text
        n == Len(digits)
        low == SubSeq(digits, IF n > 4 THEN n - 3 ELSE 1, n)
        high == SubSeq(digits, 1, IF n > 4 THEN n - 4 ELSE 0)
    IN  /\ n \in 1..8
        /\ \A i \in 1..n : DigitValue(digits[i]) >= 0
        /\ n > 1 => digits[1] # 48
        /\ (digits # text) <=> h < 0
        /\ IF h < 0 THEN (0 - HexValue(high)) * Half - HexValue(low) = h
           ELSE HexValue(high) * Half + HexValue(low) = h

\* C24: after every character the running hash is 31 times the previous
\* hash (0 at the start) plus the character's code, reduced to a signed
\* 32-bit integer, and is that sum itself while it fits 32 bits; the value
\* returned is 'simple:' followed by the base-16 rendering of the last hash,
\* and it is what calculateChecksum gives for the whole text; verifyChecksum
\* answers true exactly when the expected checksum equals that value.
C24_ChecksumRecurrence ==
    /\ Len(sum.trail) = sum.i
    /\ \A k \in 1..sum.i :
          LET previous == IF k = 1 THEN 0 ELSE sum.trail[k - 1]
          IN  /\ sum.trail[k] = Times31Plus(previous, sum.data[k])
              /\ previous \in (0 - 60000000)..60000000 =>
                     sum.trail[k] = 31 * previous + sum.data[k]
              /\ ToInt32(Hi(sum.trail[k]), Lo(sum.trail[k])) = sum.trail[k]
    /\ sum.hash = (IF sum.i = 0 THEN 0 ELSE sum.trail[sum.i])
    /\ pc \in {"checksum", "verified"} =>
          /\ sum.i = Len(sum.data)
          /\ SubSeq(sum.out.s, 1, Len(SimpleTag)) = SimpleTag
          /\ RendersHex(SubSeq(sum.out.s, Len(SimpleTag) + 1, Len(sum.out.s)), sum.hash)
          /\ sum.out = calculateChecksum(sum.data)
    /\ pc = "verified" => (sum.ok <=> sum.expected = sum.out)

\* a text of five characters has been hashed: the hash left the 32-bit range
\* on the way and is negative, the text read backwards has another
\* checksum, and verifyChecksum refused that one
C24_Witness ==
    /\ pc = "verified"
    /\ Len(sum.data) = 5
    /\ sum.hash < 0
    /\ \E k \in 2..5 : sum.trail[k - 1] > 70000000
    /\ sum.expected = calculateChecksum(Reverse(sum.data))
    /\ ~sum.ok

====
